---- MODULE Spec2Model ----
(***************************************************************************)
(* A model of gosh-runner's job queue (src/src/job.rs): the registry Jobs  *)
(* (a SlotMap of Computations plus a BiMap from user ids to slot keys),    *)
(* the Db operations that lock it, the Computation's working directory    *)
(* and files, and the child process each wait_job spawns.                  *)
(***************************************************************************)
EXTENDS Integers, Sequences, FiniteSets, TLC

VARIABLES
    slots,    \* SlotMap storage: sequence of [ver, val]; occupied iff ver is odd
    free,     \* SlotMap free list (a stack of slot indexes, head first)
    mapping,  \* BiMap<usize, JobKey>: a set of <<id, key>> pairs, key = <<idx, ver>>
    ndirs,    \* number of temporary directories created so far (names are unique)
    dirs,     \* the working directories that exist on disk
    fs,       \* the files on disk: path <<dir, name>> -> [data, mtime]
    child,    \* the children spawned so far: sequence of [dir, st, out, sigs, wrote]
    now,      \* the filesystem clock
    wj,       \* the wait_job call that holds the registry lock, if any
    blocked,  \* requests of other tasks waiting for the registry lock (FIFO)
    nputs,    \* number of put_job_file calls that wrote a file
    issued,   \* history: the ids insert_job has returned, in order
    removed,  \* history: the ids removed by delete_job or clear_jobs
    dropped,  \* history: the Computations dropped from the registry so far
    meddled,  \* history: the directories whose input or output file a child
              \* wrote over or removed
    procs,    \* the process table: pid -> [st, born, sess, ign, orig]
    handle,   \* the SessionHandler's process: NoProcess or [pid, born]
    hop,      \* the SessionHandler operation in flight
    hret,     \* the last SessionHandler operation that returned
    sdropped, \* the Session has been dropped
    stray,    \* history: a signal was delivered to a process outside the session
    nborn,    \* number of processes created so far (their start times)
    ispawned, \* InteractiveSession::spawn has run: the streams exist
    sout,     \* the bytes the child has written to its stdout so far
    seof,     \* the child has closed its stdout
    rpos,     \* number of bytes of sout the StdoutReader has consumed
    sin,      \* the inputs written to the child's stdin, one per write
    iret,     \* the last interact call that returned: [res, text, input, marker]
    iall,     \* history: the texts of the interact calls that returned Ok, in call order
    hnd,      \* the Handler clones: h -> [pc, req, seen]
    qint,     \* the interaction channel (mpsc, capacity 1): requests [h, n]
    qctl,     \* the control channel (mpsc, capacity 1): Control messages
    wout,     \* the watch channel of outputs: [val, ver]
    waiters,  \* the Handlers registered with the Notify
    rn,       \* the Runner: [pc, cur, sh, res, why]
    jchild,   \* the child of the Runner's session: none, running, stopped, dead
    rhist,    \* history: [nints, nctls, entered, served, notified, quit, termd, mixed]
    sup,      \* the single-job supervisor: [pc, timeout, bytes, v, out, res]
    kids,     \* the two children Session::start spawns, and two processes the first
              \* one may fork into its session: [first, second, m1, m2]
    sclock,   \* seconds since the supervisor armed its timer
    sigint,   \* SIGINT has been delivered to the supervisor's process
    code,     \* the result of ctrlc_enter_main: none, Ok or Err
    stop,     \* the directories that hold a file named STOP
    scwd,     \* the current directory of the process that polls
    sfh,      \* the StopFileHandler: [made, cleaned, npolls]
    spoll,    \* the last handle_user_interruption that returned: [res, msg]
    cpy,      \* Computation::start draining one child: [pc, fout, ferr]
    pipes,    \* bytes waiting in the child's pipes: [out, err]
    script,   \* the child of that start: [todo, open]
    ngsent,   \* history: the chunks the Nailgun server has sent
    ngwire,   \* their bytes not yet received
    ngbuf,    \* the BytesMut buffer the Decoder is called with
    ngout,    \* the chunks decode has returned so far
    ngst      \* the reader: new, fresh (bytes arrived), idle (waiting for bytes) or panic

queueVars == <<slots, free, mapping, ndirs, dirs, fs, child, now, wj, blocked, nputs,
               issued, removed, dropped, meddled>>
sessVars == <<procs, handle, hop, hret, sdropped, stray, nborn>>
ioVars == <<ispawned, sout, seof, rpos, sin, iret, iall>>
runVars == <<hnd, qint, qctl, wout, waiters, rn, jchild, rhist>>
supVars == <<sup, kids, sclock, sigint, code>>
stopVars == <<stop, scwd, sfh, spoll>>
copyVars == <<cpy, pipes, script>>
ngVars == <<ngsent, ngwire, ngbuf, ngout, ngst>>
vars == <<queueVars, sessVars, ioVars, runVars, supVars, stopVars, copyVars, ngVars>>

\* ---------------------------------------------------------------- bounds
MaxWork == 3       \* directories created, children spawned, files put and clock ticks
MaxOut == 1        \* bytes a child prints on its stdout
MaxBlocked == 1    \* requests waiting for the lock
MaxPids == 2       \* process ids in the process table
MaxBorn == 3       \* processes created in one behaviour
MaxBytes == 4      \* bytes a child writes to the stdout an InteractiveSession reads
MaxCalls == 2      \* interact calls in one behaviour
MaxHandlers == 2   \* Handler clones of one Runner
MaxInts == 2       \* Handler::interact calls in one behaviour
MaxCtls == 2       \* control messages sent in one behaviour
MaxTime == 1       \* seconds the supervisor's clock runs, and its largest timeout
MaxPolls == 3      \* handle_user_interruption calls in one behaviour
MaxScript == 4     \* bytes a script prints before it exits
PipeCap == 1       \* bytes a pipe holds before a write to it waits
MaxChunks == 2     \* chunks the Nailgun server sends
MaxPayload == 2    \* bytes in the payload of a chunk

\* ---------------------------------------------------------------- values
NoKey == <<0, 0>>
NoComp == [job |-> [script |-> <<>>, input |-> <<>>], session |-> 0, wrk_dir |-> 0]
Idle == [pc |-> "idle", id |-> 0, key |-> NoKey, child |-> 0]

\* The jobs a client submits: script text and stdin bytes.
JobKinds == {[script |-> <<1>>, input |-> <<>>], [script |-> <<2>>, input |-> <<3>>]}
\* File bodies a client uploads.
Bodies == {<<7>>, <<8, 9>>}
\* File names a client passes: a plain name, a name with a parent component
\* and an absolute path.
FileNames == {"x", "../x", "/x"}
\* The ids a client may name: every id that can be issued and one that never is.
IdArgs == 1..(MaxWork + 1)

\* Directories outside every working directory: the supervisor's cwd (the
\* parent of the temporary directories) and the filesystem root.
CwdDir == 0
RootDir == -1


\* ---------------------------------------------------------------- SlotMap
\* A slot holds a value iff its version is odd; a key is <<index, version>>.
contains_key(sl, k) ==
    /\ k[1] \in 1..Len(sl)
    /\ sl[k[1]].ver = k[2]
    /\ k[2] % 2 = 1

LiveKeys(sl) == {<<i, sl[i].ver>> : i \in {j \in 1..Len(sl) : sl[j].ver % 2 = 1}}

\* SlotMap::insert: reuse the slot at the head of the free list with its
\* version advanced to the next odd number, else push a new slot.
SlotInsert(sl, fr, v) ==
    IF fr # <<>>
    THEN LET i == Head(fr) IN
         [slots |-> [sl EXCEPT ![i] = [ver |-> sl[i].ver + 1, val |-> v]],
          free |-> Tail(fr),
          key |-> <<i, sl[i].ver + 1>>]
    ELSE [slots |-> Append(sl, [ver |-> 1, val |-> v]),
          free |-> fr,
          key |-> <<Len(sl) + 1, 1>>]

\* SlotMap::remove of a key it contains: the version becomes even and the
\* slot goes on the free list.
SlotRemove(sl, fr, k) ==
    [slots |-> [sl EXCEPT ![k[1]] = [ver |-> sl[k[1]].ver + 1, val |-> NoComp]],
     free |-> <<k[1]>> \o fr]

\* SlotMap::clear: every occupied slot is removed, in index order.
RECURSIVE SlotClearFrom(_, _, _)
SlotClearFrom(sl, fr, i) ==
    IF i > Len(sl) THEN [slots |-> sl, free |-> fr]
    ELSE IF sl[i].ver % 2 = 1
         THEN LET r == SlotRemove(sl, fr, <<i, sl[i].ver>>)
              IN SlotClearFrom(r.slots, r.free, i + 1)
         ELSE SlotClearFrom(sl, fr, i + 1)

SlotClear(sl, fr) == SlotClearFrom(sl, fr, 1)

\* ---------------------------------------------------------------- Jobs
\* BiMap::get_by_left and get_by_right; NoKey and 0 stand for None.
get_by_left(id) ==
    IF \E p \in mapping : p[1] = id
    THEN (CHOOSE p \in mapping : p[1] = id)[2]
    ELSE NoKey

get_by_right(k) ==
    IF \E p \in mapping : p[2] = k
    THEN (CHOOSE p \in mapping : p[2] = k)[1]
    ELSE 0

\* Jobs::check_job: the key the id maps to, or NoKey for the error.
check_job(id) == get_by_left(id)

\* Jobs::insert with the id taken as the length of the mapping.
NextId_Zero == Cardinality(mapping)

\* Jobs::insert: the id given to a new job.
NextId == Cardinality(mapping) + 1

\* BiMap::insert_no_overwrite fails when the left or the right value is present.
Overwrites(n, k) == \E p \in mapping : p[1] = n \/ p[2] = k

\* Jobs::to_id and Jobs::iter, as Db::get_job_list collects them; to_id
\* panics on a key the mapping does not hold.
get_job_list == {get_by_right(k) : k \in LiveKeys(slots)}
get_job_list_res ==
    IF \E k \in LiveKeys(slots) : get_by_right(k) = 0 THEN "Panic" ELSE "Ok"

\* The ids whose Computation is stored.
LiveIds == {p[1] : p \in {q \in mapping : contains_key(slots, q[2])}}
Comp(k) == slots[k[1]].val

\* ---------------------------------------------------------------- files
\* The modification time is kept for the files is_done reads.
Stamp(p) == IF p[2] \in {"job.inp", "job.out"} THEN now ELSE 0

\* A file opened without truncation: the bytes past the new body stay.
CreateFile_NoTruncate(f, p, body) ==
    [q \in DOMAIN f \cup {p} |->
        IF q # p THEN f[q]
        ELSE [data |-> IF p \in DOMAIN f /\ Len(f[p].data) > Len(body)
                       THEN body \o SubSeq(f[p].data, Len(body) + 1, Len(f[p].data))
                       ELSE body,
              mtime |-> Stamp(p)]]

\* File::create followed by write_all: the file is truncated, then written.
CreateFile(f, p, body) ==
    [q \in DOMAIN f \cup {p} |->
        IF q = p THEN [data |-> body, mtime |-> Stamp(p)] ELSE f[q]]

RemoveFile(f, p) == [q \in DOMAIN f \ {p} |-> f[q]]

\* TempDir's drop: the directory goes with everything in it.
RemoveDir(f, d) == [q \in {r \in DOMAIN f : r[1] # d} |-> f[q]]

\* PathBuf::join as the OS resolves the result: an absolute name replaces
\* the working directory, a parent component leaves it.
Resolve(wd, name) ==
    CASE name = "../x" -> <<CwdDir, "x">>
      [] name = "/x" -> <<RootDir, "x">>
      [] OTHER -> <<wd, name>>

\* Computation::new: a fresh directory with the run script and the input file.
NewComp(j) == [job |-> j, session |-> 0, wrk_dir |-> ndirs + 1]
NewCompFiles(f, j) ==
    CreateFile(CreateFile(f, <<ndirs + 1, "run">>, j.script),
               <<ndirs + 1, "job.inp">>, j.input)

is_started(c) == c.session # 0

\* Computation::is_done, on the directories ds and the files f.
is_done_in(ds, f, c) ==
    /\ c.wrk_dir \in ds
    /\ <<c.wrk_dir, "job.out">> \in DOMAIN f
    /\ <<c.wrk_dir, "job.inp">> \in DOMAIN f
    /\ f[<<c.wrk_dir, "job.out">>].mtime >= f[<<c.wrk_dir, "job.inp">>].mtime

is_done(c) == is_done_in(dirs, fs, c)

\* ---------------------------------------------------------------- sessions
\* SessionHandler::send_signal on the leader: Process::from_pid fails once
\* the leader has been reaped; a zombie is still in the process table.
send_signal(ch, c, s) ==
    IF ch[c].st # "reaped"
    THEN [ok |-> TRUE, ch |-> [ch EXCEPT ![c].sigs = Append(@, s)]]
    ELSE [ok |-> FALSE, ch |-> ch]

terminate(ch, c) ==
    LET r == send_signal(ch, c, "SIGCONT") IN
    IF r.ok THEN send_signal(r.ch, c, "SIGTERM") ELSE r

\* A Session whose drop does nothing.
DropSession_Leak(ch, s) == ch

\* Drop of Option<Session>: terminate, its result ignored.
DropSession(ch, s) == IF s = 0 THEN ch ELSE terminate(ch, s).ch

DropSessions(ch, S) ==
    [c \in DOMAIN ch |-> IF c \in S THEN DropSession(ch, c)[c] ELSE ch[c]]

Dropped(c) == [wrk_dir |-> c.wrk_dir, session |-> c.session]


\* ---------------------------------------------------------------- Db
Work == ndirs + Len(child) + nputs + now

LockFree == wj.pc = "idle"

\* What an operation that only reads, or fails, leaves alone.
Untouched ==
    UNCHANGED <<slots, free, mapping, ndirs, dirs, fs, child, now, wj, nputs,
                issued, removed, dropped, meddled>>

\* check_job followed by the index jobs[k], which panics on a key the
\* SlotMap does not contain.
Lookup(id) ==
    LET k == check_job(id) IN
    IF k = NoKey THEN "NotFound"
    ELSE IF ~contains_key(slots, k) THEN "Panic" ELSE "Ok"

\* Db::insert_job: Job::submit, then Jobs::insert under the lock.
insert_job_res ==
    IF Overwrites(NextId, SlotInsert(slots, free, NoComp).key) THEN "Panic" ELSE "Ok"

insert_job(j) ==
    /\ Work < MaxWork
    /\ LET ins == SlotInsert(slots, free, NewComp(j))
           n == NextId
       IN /\ slots' = ins.slots
          /\ free' = ins.free
          /\ ndirs' = ndirs + 1
          /\ dirs' = dirs \cup {ndirs + 1}
          /\ fs' = NewCompFiles(fs, j)
          /\ IF insert_job_res = "Panic"
             THEN UNCHANGED <<mapping, issued>>
             ELSE /\ mapping' = mapping \cup {<<n, ins.key>>}
                  /\ issued' = Append(issued, n)
    /\ UNCHANGED <<child, now, wj, nputs, removed, dropped, meddled>>

\* update_job without the is_started test.
update_job_res_NoGuard(id) == Lookup(id)

\* Db::update_job.
update_job_res(id) ==
    IF Lookup(id) # "Ok" THEN Lookup(id)
    ELSE IF is_started(Comp(check_job(id))) THEN "AlreadyStarted" ELSE "Ok"

update_job(id, j) ==
    IF update_job_res(id) # "Ok"
    THEN Untouched
    ELSE LET k == check_job(id) IN
         /\ Work < MaxWork
         /\ slots' = [slots EXCEPT ![k[1]].val = NewComp(j)]
         /\ ndirs' = ndirs + 1
         /\ dirs' = (dirs \cup {ndirs + 1}) \ {Comp(k).wrk_dir}
         /\ fs' = RemoveDir(NewCompFiles(fs, j), Comp(k).wrk_dir)
         /\ child' = DropSession(child, Comp(k).session)
         /\ dropped' = dropped \cup {Dropped(Comp(k))}
         /\ UNCHANGED <<free, mapping, now, wj, nputs, issued, removed, meddled>>

\* Db::get_job_list reads; its value is the operator get_job_list.
get_job_list_op == Untouched

\* Db::put_job_file.
put_job_file_res(id) == Lookup(id)

put_job_file(id, name, body) ==
    IF put_job_file_res(id) # "Ok"
    THEN Untouched
    ELSE /\ Work < MaxWork
         /\ nputs' = nputs + 1
         /\ fs' = CreateFile(fs, Resolve(Comp(check_job(id)).wrk_dir, name), body)
         /\ UNCHANGED <<slots, free, mapping, ndirs, dirs, child, now, wj,
                        issued, removed, dropped, meddled>>

\* Db::get_job_file: its result, and the bytes it returns when that is Ok.
get_job_file_res(id, name) ==
    IF Lookup(id) # "Ok" THEN Lookup(id)
    ELSE IF Resolve(Comp(check_job(id)).wrk_dir, name) \in DOMAIN fs
         THEN "Ok" ELSE "Io"

get_job_file_val(id, name) ==
    fs[Resolve(Comp(check_job(id)).wrk_dir, name)].data

get_job_file(id, name) == Untouched

\* Db::list_job_files: the regular files of the working directory.
list_job_files_res(id) == Lookup(id)

list_job_files_val(id) ==
    {p \in DOMAIN fs : p[1] = Comp(check_job(id)).wrk_dir}

list_job_files(id) == Untouched

\* Db::clear_jobs, Jobs::clear: every Computation is dropped; the mapping stays.
clear_jobs ==
    LET ks == LiveKeys(slots)
        cl == SlotClear(slots, free)
    IN /\ slots' = cl.slots
       /\ free' = cl.free
       /\ child' = DropSessions(child, {Comp(k).session : k \in ks} \ {0})
       /\ dirs' = dirs \ {Comp(k).wrk_dir : k \in ks}
       /\ fs' = [q \in {r \in DOMAIN fs : r[1] \notin {Comp(k).wrk_dir : k \in ks}}
                   |-> fs[q]]
       /\ removed' = removed \cup {get_by_right(k) : k \in ks}
       /\ dropped' = dropped \cup {Dropped(Comp(k)) : k \in ks}
       /\ UNCHANGED <<mapping, ndirs, now, wj, nputs, issued, meddled>>

\* Db::delete_job, Jobs::remove: the Computation is dropped; the mapping stays.
delete_job_res(id) == Lookup(id)

delete_job(id) ==
    IF delete_job_res(id) # "Ok"
    THEN Untouched
    ELSE LET k == check_job(id)
             rm == SlotRemove(slots, free, k)
         IN /\ slots' = rm.slots
            /\ free' = rm.free
            /\ child' = DropSession(child, Comp(k).session)
            /\ dirs' = dirs \ {Comp(k).wrk_dir}
            /\ fs' = RemoveDir(fs, Comp(k).wrk_dir)
            /\ removed' = removed \cup {id}
            /\ dropped' = dropped \cup {Dropped(Comp(k))}
            /\ UNCHANGED <<mapping, ndirs, now, wj, nputs, issued, meddled>>

\* ---------------------------------------------------------------- wait_job
\* Db::wait_job takes the lock and keeps the guard across start and wait.
\* Its first step: check_job, then Computation::start up to spawn_session.
wait_job_res(id) == Lookup(id)

wait_job(id) ==
    IF wait_job_res(id) # "Ok"
    THEN Untouched
    ELSE \/ \* spawn_session fails: the error is returned, the guard released
            Untouched
         \/ \* the child runs as the leader of a new session, in the job's directory
            /\ Work < MaxWork
            /\ child' = Append(child, [dir |-> Comp(check_job(id)).wrk_dir,
                                       st |-> "running", out |-> TRUE, sigs |-> <<>>,
                                       wrote |-> FALSE])
            /\ wj' = [pc |-> "spawned", id |-> id, key |-> check_job(id),
                      child |-> Len(child) + 1]
            /\ UNCHANGED <<slots, free, mapping, ndirs, dirs, fs, now, nputs,
                           issued, removed, dropped, meddled>>

OutFile == <<Comp(wj.key).wrk_dir, "job.out">>
ErrFile == <<Comp(wj.key).wrk_dir, "job.err">>

\* Computation::start creating the error file only.
StartCreate_NoOut ==
    /\ wj.pc = "spawned"
    /\ fs' = CreateFile(fs, ErrFile, <<>>)
    /\ wj' = [wj EXCEPT !.pc = "copy"]
    /\ UNCHANGED <<slots, free, mapping, ndirs, dirs, child, now, blocked, nputs,
                   issued, removed, dropped, meddled>>
    /\ UNCHANGED <<sessVars, ioVars, runVars, supVars, stopVars, copyVars, ngVars>>

\* Computation::start: File::create of the output and the error file.
StartCreate ==
    /\ wj.pc = "spawned"
    /\ fs' = CreateFile(CreateFile(fs, OutFile, <<>>), ErrFile, <<>>)
    /\ wj' = [wj EXCEPT !.pc = "copy"]
    /\ UNCHANGED <<slots, free, mapping, ndirs, dirs, child, now, blocked, nputs,
                   issued, removed, dropped, meddled>>
    /\ UNCHANGED <<sessVars, ioVars, runVars, supVars, stopVars, copyVars, ngVars>>

\* Computation::start: io::copy writes what the child printed to the output
\* file (the open file; a file the child unlinked is not brought back).
StartCopy ==
    /\ wj.pc = "copy"
    /\ child[wj.child].out
    /\ OutFile \in DOMAIN fs
    /\ Len(fs[OutFile].data) < MaxOut
    /\ fs' = [fs EXCEPT ![OutFile] =
                 [data |-> Append(@.data, 4), mtime |-> Stamp(OutFile)]]
    /\ UNCHANGED <<slots, free, mapping, ndirs, dirs, child, now, wj, blocked,
                   nputs, issued, removed, dropped, meddled>>
    /\ UNCHANGED <<sessVars, ioVars, runVars, supVars, stopVars, copyVars, ngVars>>

\* Computation::start returns once both pipes are at EOF: the new session
\* replaces the stored one, which is dropped.
StartReturn ==
    /\ wj.pc = "copy"
    /\ ~child[wj.child].out
    /\ slots' = [slots EXCEPT ![wj.key[1]].val.session = wj.child]
    /\ child' = DropSession(child, Comp(wj.key).session)
    /\ wj' = [wj EXCEPT !.pc = "wait"]
    /\ UNCHANGED <<free, mapping, ndirs, dirs, fs, now, blocked, nputs,
                   issued, removed, dropped, meddled>>
    /\ UNCHANGED <<sessVars, ioVars, runVars, supVars, stopVars, copyVars, ngVars>>

\* Computation::wait returns when the child has exited; wait_job returns Ok
\* and the guard is released.
WaitReturn ==
    /\ wj.pc = "wait"
    /\ child[wj.child].st = "zombie"
    /\ child' = [child EXCEPT ![wj.child].st = "reaped"]
    /\ wj' = Idle
    /\ UNCHANGED <<slots, free, mapping, ndirs, dirs, fs, now, blocked, nputs,
                   issued, removed, dropped, meddled>>
    /\ UNCHANGED <<sessVars, ioVars, runVars, supVars, stopVars, copyVars, ngVars>>

\* The caller drops the wait_job future at one of its await points: the
\* guard is released; inside start the session is a local and is dropped,
\* inside wait it is already stored in the Computation.
WaitCancel ==
    /\ wj.pc # "idle"
    /\ child' = IF wj.pc = "wait" THEN child ELSE DropSession(child, wj.child)
    /\ wj' = Idle
    /\ UNCHANGED <<slots, free, mapping, ndirs, dirs, fs, now, blocked, nputs,
                   issued, removed, dropped, meddled>>
    /\ UNCHANGED <<sessVars, ioVars, runVars, supVars, stopVars, copyVars, ngVars>>

\* ---------------------------------------------------------------- the child
\* A child the program still holds: the one the running wait_job spawned, or
\* the one in the session of a stored Computation. A child whose Session has
\* been dropped may run on, but nothing in the program observes it any more;
\* its steps are left out.
Supervised(c) ==
    \/ wj.child = c
    \/ \E k \in LiveKeys(slots) : Comp(k).session = c

EnvUnchanged ==
    /\ UNCHANGED <<sessVars, ioVars, runVars, supVars, stopVars, copyVars, ngVars>>
    /\ UNCHANGED <<slots, free, mapping, ndirs, dirs, now, wj, blocked, nputs,
                issued, removed, dropped>>

\* The files a script touches besides what it prints.
ChildFiles == {"job.inp", "job.out"}

\* The script closes its stdout and stderr and keeps running.
ChildCloseStdio(c) ==
    /\ Supervised(c)
    /\ child[c].st = "running"
    /\ child[c].out
    /\ child' = [child EXCEPT ![c].out = FALSE]
    /\ UNCHANGED <<fs, meddled>>
    /\ EnvUnchanged

\* The script exits: its pipes close, and it stays a zombie until it is waited for.
ChildExit(c) ==
    /\ Supervised(c)
    /\ child[c].st = "running"
    /\ child' = [child EXCEPT ![c].st = "zombie", ![c].out = FALSE]
    /\ UNCHANGED <<fs, meddled>>
    /\ EnvUnchanged

\* The script writes a file of its working directory; the child's record
\* notes that it wrote the output file itself.
ChildWrite(c, name) ==
    /\ Supervised(c)
    /\ child[c].st = "running"
    /\ child[c].dir \in dirs
    /\ fs' = CreateFile(fs, <<child[c].dir, name>>, <<5>>)
    /\ meddled' = IF name = "job.inp" THEN meddled \cup {child[c].dir} ELSE meddled
    /\ child' = IF name = "job.out" THEN [child EXCEPT ![c].wrote = TRUE] ELSE child
    /\ EnvUnchanged

\* The script removes a file of its working directory.
ChildRemove(c, name) ==
    /\ Supervised(c)
    /\ child[c].st = "running"
    /\ <<child[c].dir, name>> \in DOMAIN fs
    /\ fs' = RemoveFile(fs, <<child[c].dir, name>>)
    /\ meddled' = meddled \cup {child[c].dir}
    /\ UNCHANGED child
    /\ EnvUnchanged

CloseStdio == \E c \in DOMAIN child : ChildCloseStdio(c)
Exit == \E c \in DOMAIN child : ChildExit(c)
Write == \E c \in DOMAIN child, n \in ChildFiles : ChildWrite(c, n)
Remove == \E c \in DOMAIN child, n \in ChildFiles : ChildRemove(c, n)

\* The filesystem clock advances.
Tick ==
    /\ Work < MaxWork
    /\ now' = now + 1
    /\ UNCHANGED <<slots, free, mapping, ndirs, dirs, fs, child, wj, blocked,
                   nputs, issued, removed, dropped, meddled>>
    /\ UNCHANGED <<sessVars, ioVars, runVars, supVars, stopVars, copyVars, ngVars>>

\* ---------------------------------------------------------------- tasks
Req(op, id, j, name, body) ==
    [op |-> op, id |-> id, job |-> j, name |-> name, body |-> body]

NoJob == NoComp.job

Do(r) ==
    CASE r.op = "insert_job" -> insert_job(r.job)
      [] r.op = "update_job" -> update_job(r.id, r.job)
      [] r.op = "get_job_list" -> get_job_list_op
      [] r.op = "put_job_file" -> put_job_file(r.id, r.name, r.body)
      [] r.op = "get_job_file" -> get_job_file(r.id, r.name)
      [] r.op = "list_job_files" -> list_job_files(r.id)
      [] r.op = "clear_jobs" -> clear_jobs
      [] r.op = "delete_job" -> delete_job(r.id)
      [] r.op = "wait_job" -> wait_job(r.id)

\* A task's call runs at once when the lock is free and nobody waits for it
\* (every operation but wait_job releases the lock before it returns).
Ready ==
    /\ LockFree
    /\ blocked = <<>>
    /\ UNCHANGED blocked
    /\ UNCHANGED <<sessVars, ioVars, runVars, supVars, stopVars, copyVars, ngVars>>

InsertJob == \E j \in JobKinds : Ready /\ insert_job(j)
UpdateJob == \E id \in IdArgs, j \in JobKinds : Ready /\ update_job(id, j)
GetJobList == Ready /\ get_job_list_op
PutJobFile == \E id \in IdArgs, n \in FileNames, b \in Bodies : Ready /\ put_job_file(id, n, b)
GetJobFile == \E id \in IdArgs, n \in FileNames : Ready /\ get_job_file(id, n)
ListJobFiles == \E id \in IdArgs : Ready /\ list_job_files(id)
ClearJobs == Ready /\ clear_jobs
DeleteJob == \E id \in IdArgs : Ready /\ delete_job(id)
WaitJob == \E id \in IdArgs : Ready /\ wait_job(id)

\* The requests that are made to wait in the model: a delete of the job
\* being waited for, and a read of the registry.
Blockable ==
    {Req("delete_job", wj.id, NoJob, "", <<>>), Req("get_job_list", 0, NoJob, "", <<>>)}

\* A task calls an operation while wait_job holds the lock: it waits. The
\* entry notes whether the child was running when the call was made.
Block ==
    \E r \in Blockable :
        /\ ~LockFree
        /\ Len(blocked) < MaxBlocked
        /\ blocked' = Append(blocked, [r |-> r, running |-> child[wj.child].st = "running"])
        /\ UNCHANGED <<slots, free, mapping, ndirs, dirs, fs, child, now, wj, nputs,
                       issued, removed, dropped, meddled>>
        /\ UNCHANGED <<sessVars, ioVars, runVars, supVars, stopVars, copyVars, ngVars>>

\* The lock is handed to the longest waiting task.
Unblock ==
    /\ LockFree
    /\ blocked # <<>>
    /\ Do(Head(blocked).r)
    /\ blocked' = Tail(blocked)
    /\ UNCHANGED <<sessVars, ioVars, runVars, supVars, stopVars, copyVars, ngVars>>

\* ================================================================ process.rs
\* The process table as /proc shows it. A pid holds no process (st "none")
\* or one that is running, stopped, or a zombie not yet waited for. born is
\* the start time, sess the session id, ign whether the process ignores
\* SIGTERM, orig whether it descends from the child the Session spawned.
Pids == 1..MaxPids
NoProc == [st |-> "none", born |-> 0, sess |-> 0, ign |-> FALSE, orig |-> FALSE]
NoProcess == [pid |-> 0, born |-> 0]
NoOp == [pc |-> "idle", kind |-> "", sigs |-> <<>>, todo |-> <<>>, tried |-> <<>>,
         gone |-> FALSE]
NoRet == [kind |-> "", res |-> "", tried |-> <<>>, gone |-> FALSE]

\* resume sending the signal of pause.
Signals_ResumeStops(kind) ==
    CASE kind = "pause" -> <<"SIGSTOP">>
      [] kind = "resume" -> <<"SIGSTOP">>
      [] OTHER -> <<"SIGCONT", "SIGTERM">>

\* The signals each operation sends, in order.
Signals(kind) ==
    CASE kind = "pause" -> <<"SIGSTOP">>
      [] kind = "resume" -> <<"SIGCONT">>
      [] OTHER -> <<"SIGCONT", "SIGTERM">>

\* Process::from_pid: Ok iff /proc holds an entry for the pid.
from_pid(pid) == procs[pid].st # "none"

\* Process::is_same: same pid and same start time.
is_same(pid, p_old) == pid = p_old.pid /\ procs[pid].born = p_old.born

\* Process::is_paused.
is_paused(pid) == procs[pid].st = "stop"

\* get_processes_in_session: the pids of /proc whose session is id.
get_processes_in_session(id) ==
    {p \in Pids : procs[p].st # "none" /\ procs[p].sess = id}

\* The pids of a set in the order of the /proc listing.
RECURSIVE Listing(_)
Listing(S) ==
    IF S = {} THEN <<>>
    ELSE LET p == CHOOSE q \in S : \A r \in S : q <= r
         IN <<p>> \o Listing(S \ {p})

\* The leader recorded at spawn is still a live process.
LeaderAlive ==
    /\ handle # NoProcess
    /\ procs[handle.pid].born = handle.born
    /\ procs[handle.pid].st \in {"run", "stop"}

\* What a signal does to the process that receives it.
Deliver(pr, sig) ==
    CASE pr.st = "zombie" -> pr
      [] sig = "SIGSTOP" -> [pr EXCEPT !.st = "stop"]
      [] sig = "SIGCONT" -> [pr EXCEPT !.st = "run"]
      [] sig = "SIGTERM" -> IF pr.ign THEN pr ELSE [pr EXCEPT !.st = "zombie"]

\* SessionHandler::id: the pid of the Process recorded by SessionHandler::from
\* at spawn, 0 for None.
SessionHandlerId == IF handle = NoProcess THEN 0 ELSE handle.pid

\* SessionHandler::get_processes: the listing of the session of id(), an
\* error when id() is None.
get_processes_res == IF SessionHandlerId = 0 THEN "Err" ELSE "Ok"
get_processes_val == get_processes_in_session(SessionHandlerId)

\* The leader recorded at spawn has been waited for: its pid holds no
\* process, or another one.
LeaderCollected ==
    /\ handle # NoProcess
    /\ ~(from_pid(handle.pid) /\ is_same(handle.pid, handle))

SessUnchanged == UNCHANGED <<queueVars, ioVars, runVars, supVars, stopVars, copyVars, ngVars>>

\* spawn_session: the child becomes the leader of a new session and the
\* handler records its pid and start time.
SpawnSession ==
    /\ handle = NoProcess
    /\ \E ig \in BOOLEAN :
           procs' = [procs EXCEPT ![1] = [st |-> "run", born |-> nborn + 1, sess |-> 1,
                                          ign |-> ig, orig |-> TRUE]]
    /\ handle' = [pid |-> 1, born |-> nborn + 1]
    /\ nborn' = nborn + 1
    /\ UNCHANGED <<hop, hret, sdropped, stray>>
    /\ SessUnchanged

\* A call of pause, resume or terminate on the handler, or the drop of the
\* Session, which calls terminate and ignores its result.
CallOp(kind) ==
    /\ hop' = [pc |-> "check", kind |-> kind, sigs |-> Signals(kind), todo |-> <<>>,
               tried |-> <<>>, gone |-> ~LeaderAlive]
    /\ UNCHANGED <<procs, handle, hret, sdropped, stray, nborn>>
    /\ SessUnchanged

Callable == handle # NoProcess /\ hop.pc = "idle"

pause == Callable /\ CallOp("pause")
resume == Callable /\ CallOp("resume")
HandlerTerminate == Callable /\ CallOp("terminate")
SessionDrop == Callable /\ ~sdropped /\ CallOp("drop")

\* The operation returns res.
Return(res) ==
    /\ hop' = NoOp
    /\ hret' = [kind |-> hop.kind, res |-> res, tried |-> hop.tried, gone |-> hop.gone]
    /\ sdropped' = (sdropped \/ hop.kind = "drop")

\* send_signal returned Ok: the operation goes on to its next signal, or returns.
Proceed(tr) ==
    IF Len(hop.sigs) > 1
    THEN /\ hop' = [hop EXCEPT !.pc = "check", !.sigs = Tail(@), !.todo = <<>>,
                               !.tried = tr]
         /\ UNCHANGED <<hret, sdropped>>
    ELSE /\ hop' = NoOp
         /\ hret' = [kind |-> hop.kind, res |-> "Ok", tried |-> tr, gone |-> hop.gone]
         /\ sdropped' = (sdropped \/ hop.kind = "drop")

\* SessionHandler::send_signal up to the identity test: an error when the
\* pid holds no process, Ok without a signal when it holds another one.
SendCheck ==
    /\ hop.pc = "check"
    /\ LET tr == Append(hop.tried, Head(hop.sigs)) IN
       IF ~from_pid(handle.pid)
       THEN /\ hop' = NoOp
            /\ hret' = [kind |-> hop.kind, res |-> "Err", tried |-> tr, gone |-> hop.gone]
            /\ sdropped' = (sdropped \/ hop.kind = "drop")
       ELSE IF is_same(handle.pid, handle)
            THEN /\ hop' = [hop EXCEPT !.pc = "list", !.tried = tr]
                 /\ UNCHANGED <<hret, sdropped>>
            ELSE Proceed(tr)
    /\ UNCHANGED <<procs, handle, stray, nborn>>
    /\ SessUnchanged

\* signal_processes_by_session_id: the snapshot of the session's processes.
SendList ==
    /\ hop.pc = "list"
    /\ LET pp == Listing(get_processes_in_session(handle.pid)) IN
       IF pp = <<>>
       THEN Proceed(hop.tried)
       ELSE /\ hop' = [hop EXCEPT !.pc = "kill", !.todo = pp]
            /\ UNCHANGED <<hret, sdropped>>
    /\ UNCHANGED <<procs, handle, stray, nborn>>
    /\ SessUnchanged

\* The batch going on to the next pid, and the operation to its next signal,
\* after a kill that failed.
SendKill_GoOn ==
    /\ hop.pc = "kill"
    /\ LET p == Head(hop.todo) IN
       /\ procs' = IF procs[p].st = "none" THEN procs
                   ELSE [procs EXCEPT ![p] = Deliver(@, Head(hop.sigs))]
       /\ stray' = (stray \/ (procs[p].st # "none" /\ ~procs[p].orig))
       /\ IF Len(hop.todo) > 1
          THEN /\ hop' = [hop EXCEPT !.todo = Tail(@)]
               /\ UNCHANGED <<hret, sdropped>>
          ELSE Proceed(hop.tried)
    /\ UNCHANGED <<handle, nborn>>
    /\ SessUnchanged

\* signal_processes_by_session_id: kill of the next pid of the snapshot. An
\* error ends the batch and the operation; the signal goes to whatever
\* process holds the pid now.
SendKill ==
    /\ hop.pc = "kill"
    /\ LET p == Head(hop.todo) IN
       IF procs[p].st = "none"
       THEN /\ Return("Err")
            /\ UNCHANGED <<procs, stray>>
       ELSE /\ procs' = [procs EXCEPT ![p] = Deliver(@, Head(hop.sigs))]
            /\ stray' = (stray \/ ~procs[p].orig)
            /\ IF Len(hop.todo) > 1
               THEN /\ hop' = [hop EXCEPT !.todo = Tail(@)]
                    /\ UNCHANGED <<hret, sdropped>>
               ELSE Proceed(hop.tried)
    /\ UNCHANGED <<handle, nborn>>
    /\ SessUnchanged

\* A process exits on its own.
ProcExit ==
    \E p \in Pids :
        /\ procs[p].st = "run"
        /\ procs' = [procs EXCEPT ![p].st = "zombie"]
        /\ UNCHANGED <<handle, hop, hret, sdropped, stray, nborn>>
        /\ SessUnchanged

\* A zombie is waited for by its parent (for the leader: Child::wait).
ProcReap ==
    \E p \in Pids :
        /\ procs[p].st = "zombie"
        /\ procs' = [procs EXCEPT ![p] = NoProc]
        /\ UNCHANGED <<handle, hop, hret, sdropped, stray, nborn>>
        /\ SessUnchanged

\* A running process of the session forks: the child is in the same session.
\* Its pid is a free one: not the pid of a process, nor the id of a session
\* that still has processes.
Fork ==
    \E p, q \in Pids :
        /\ procs[p].st = "none"
        /\ get_processes_in_session(p) = {}
        /\ procs[q].st = "run"
        /\ procs[q].orig
        /\ nborn < MaxBorn
        /\ procs' = [procs EXCEPT ![p] = [st |-> "run", born |-> nborn + 1,
                                          sess |-> procs[q].sess, ign |-> FALSE,
                                          orig |-> TRUE]]
        /\ nborn' = nborn + 1
        /\ UNCHANGED <<handle, hop, hret, sdropped, stray>>
        /\ SessUnchanged

\* The system gives a free pid to an unrelated process, which may make
\* itself a session leader; a pid is not free while it names a session
\* that still has processes.
Reuse ==
    \E p \in Pids, sid \in {0} \cup Pids :
        /\ handle # NoProcess
        /\ procs[p].st = "none"
        /\ get_processes_in_session(p) = {}
        /\ sid \in {0, p}
        /\ nborn < MaxBorn
        /\ procs' = [procs EXCEPT ![p] = [st |-> "run", born |-> nborn + 1, sess |-> sid,
                                          ign |-> FALSE, orig |-> FALSE]]
        /\ nborn' = nborn + 1
        /\ UNCHANGED <<handle, hop, hret, sdropped, stray>>
        /\ SessUnchanged

\* ================================================================ interactive.rs
\* Bytes: the newline, the carriage return, two letters, and a byte that
\* is not valid UTF-8.
NL == 0
CR == 3
Bad == 4
Letters == {1, 2}
\* The inputs and the read patterns a caller passes.
Inputs == {<<>>, <<2, NL>>}
Markers == {<<1>>, <<>>}

NoInteract == [res |-> "", text |-> <<>>, input |-> <<>>, marker |-> <<>>]

\* A test that finds the pattern in every line.
Contains_Any(line, pat) == TRUE

\* str::contains: pat occurs in line as a substring.
Contains(line, pat) ==
    \E i \in 0..(Len(line) - Len(pat)) :
        \A j \in 1..Len(pat) : line[i + j] = pat[j]

\* The position of the first newline of bytes after position p, or 0.
RECURSIVE FindNL(_, _)
FindNL(bytes, p) ==
    IF p >= Len(bytes) THEN 0
    ELSE IF bytes[p + 1] = NL THEN p + 1 ELSE FindNL(bytes, p + 1)

\* Lines that keep the carriage return of a "\r\n".
NextLine_KeepCR(bytes, eof, p) ==
    LET n == FindNL(bytes, p) IN
    IF n # 0
    THEN [st |-> "line", line |-> SubSeq(bytes, p + 1, n - 1), next |-> n]
    ELSE IF ~eof THEN [st |-> "wait", line |-> <<>>, next |-> p]
    ELSE IF p < Len(bytes)
         THEN [st |-> "line", line |-> SubSeq(bytes, p + 1, Len(bytes)), next |-> Len(bytes)]
         ELSE [st |-> "none", line |-> <<>>, next |-> p]

\* io::Lines::next after p bytes: the next line without its "\n" or "\r\n",
\* and the position behind it. At the end of the stream the bytes left
\* over are a last line; with nothing left there is no line; while the
\* stream is open the reader waits for the newline.
NextLine(bytes, eof, p) ==
    LET n == FindNL(bytes, p) IN
    IF n # 0
    THEN LET raw == SubSeq(bytes, p + 1, n - 1) IN
         [st |-> "line",
          line |-> IF raw # <<>> /\ raw[Len(raw)] = CR
                   THEN SubSeq(raw, 1, Len(raw) - 1) ELSE raw,
          next |-> n]
    ELSE IF ~eof THEN [st |-> "wait", line |-> <<>>, next |-> p]
    ELSE IF p < Len(bytes)
         THEN [st |-> "line", line |-> SubSeq(bytes, p + 1, Len(bytes)), next |-> Len(bytes)]
         ELSE [st |-> "none", line |-> <<>>, next |-> p]

\* A line appended without its newline.
writeln_NoNewline(text, line) == text \o line

\* writeln!(&mut text, "{}", line): the line and a newline are appended.
writeln(text, line) == text \o line \o <<NL>>

\* The line is valid UTF-8: io::Lines yields an error for a line that is
\* not, after it has consumed the line.
ValidUtf8(line) == \A i \in DOMAIN line : line[i] # Bad

\* StdoutReader::read_until with text accumulated so far, the reader at p.
RECURSIVE read_until(_, _, _, _, _)
read_until(bytes, eof, p, pattern, text) ==
    LET l == NextLine(bytes, eof, p) IN
    CASE l.st = "wait" -> [res |-> "Wait", text |-> <<>>, pos |-> p]
      [] l.st = "none" -> [res |-> "PatternNotFound", text |-> <<>>, pos |-> p]
      [] ~ValidUtf8(l.line) -> [res |-> "InvalidEncoding", text |-> <<>>, pos |-> l.next]
      [] OTHER ->
           LET t == writeln(text, l.line) IN
           IF Contains(l.line, pattern)
           THEN [res |-> "Ok", text |-> t, pos |-> l.next]
           ELSE read_until(bytes, eof, l.next, pattern, t)

IoUnchanged == UNCHANGED <<queueVars, sessVars, runVars, supVars, stopVars, copyVars, ngVars>>

\* InteractiveSession::spawn: the child runs with piped stdin and stdout.
InteractiveSpawn ==
    /\ ~ispawned
    /\ ispawned' = TRUE
    /\ UNCHANGED <<sout, seof, rpos, sin, iret, iall>>
    /\ IoUnchanged

\* InteractiveSession::interact before spawn: the expect on stream0 panics.
InteractUnspawned ==
    \E input \in Inputs, marker \in Markers :
        /\ ~ispawned
        /\ iret' = [res |-> "Panic", text |-> <<>>, input |-> input, marker |-> marker]
        /\ UNCHANGED <<ispawned, sout, seof, rpos, sin, iall>>
        /\ IoUnchanged

\* The input written whether or not it is empty.
stdin_write_Always(input) == Append(sin, input)

\* The input is written unless it is empty.
stdin_write(input) == IF input # <<>> THEN Append(sin, input) ELSE sin

\* InteractiveSession::interact: the write fails on a pipe whose reader is
\* gone and nothing is read.
InteractBrokenPipe ==
    \E input \in Inputs \ {<<>>}, marker \in Markers :
        /\ ispawned
        /\ seof
        /\ iret' = [res |-> "Io", text |-> <<>>, input |-> input, marker |-> marker]
        /\ UNCHANGED <<ispawned, sout, seof, rpos, sin, iall>>
        /\ IoUnchanged

\* An interact whose reader starts at the beginning of stdout in every call.
interact_Rewind ==
    \E input \in Inputs, marker \in Markers :
        LET r == read_until(sout, seof, 0, marker, <<>>) IN
        /\ ispawned
        /\ Len(sin) < MaxCalls
        /\ r.res # "Wait"
        /\ sin' = stdin_write(input)
        /\ rpos' = r.pos
        /\ iret' = IF r.res = "Ok" /\ r.text = <<>>
                   THEN [res |-> "EmptyOutput", text |-> <<>>, input |-> input,
                         marker |-> marker]
                   ELSE [res |-> r.res, text |-> r.text, input |-> input,
                         marker |-> marker]
        /\ iall' = IF r.res = "Ok" /\ r.text # <<>> THEN iall \o r.text ELSE iall
        /\ UNCHANGED <<ispawned, sout, seof>>
        /\ IoUnchanged

\* InteractiveSession::interact: the write of the input, read_until, and the
\* test for an empty text. The call returns once the child has written the
\* matching line or closed its stdout.
interact ==
    \E input \in Inputs, marker \in Markers :
        LET r == read_until(sout, seof, rpos, marker, <<>>) IN
        /\ ispawned
        /\ Len(sin) < MaxCalls
        /\ r.res # "Wait"
        /\ sin' = stdin_write(input)
        /\ rpos' = r.pos
        /\ iret' = IF r.res = "Ok" /\ r.text = <<>>
                   THEN [res |-> "EmptyOutput", text |-> <<>>, input |-> input,
                         marker |-> marker]
                   ELSE [res |-> r.res, text |-> r.text, input |-> input,
                         marker |-> marker]
        /\ iall' = IF r.res = "Ok" /\ r.text # <<>> THEN iall \o r.text ELSE iall
        /\ UNCHANGED <<ispawned, sout, seof>>
        /\ IoUnchanged

\* The child writes a byte to its stdout.
ChildPrint ==
    \E b \in {NL, CR, Bad} \cup Letters :
        /\ ispawned
        /\ ~seof
        /\ Len(sout) < MaxBytes
        /\ sout' = Append(sout, b)
        /\ UNCHANGED <<ispawned, seof, rpos, sin, iret, iall>>
        /\ IoUnchanged

\* The child closes its stdout, or exits.
ChildClose ==
    /\ ispawned
    /\ ~seof
    /\ seof' = TRUE
    /\ UNCHANGED <<ispawned, sout, rpos, sin, iret, iall>>
    /\ IoUnchanged

\* ================================================================ runner
\* The interactive Runner and its Handlers (src/src/job.rs, job_handler and
\* job_runner): two bounded channels into the Runner, a watch channel and a
\* Notify out of it, and the session the Runner owns.
Handlers == 1..MaxHandlers
\* tokio::sync::mpsc::channel(1), for both inbound channels.
ChannelCap == 1
Control == {"Pause", "Resume", "Quit"}
NoHandler == [pc |-> "idle", req |-> 0, seen |-> 0]
NoRunner == [pc |-> "new", cur |-> 0, sh |-> FALSE, res |-> "none", why |-> "none"]
NoHist == [nints |-> 0, nctls |-> 0, entered |-> <<>>, served |-> <<>>,
           notified |-> {}, quit |-> FALSE, termd |-> 0, mixed |-> FALSE]

\* Handler::new builds a Handler of the four ends new_pair passes to it; the
\* clones share the senders and the Notify, and each has its own watch
\* receiver, which has seen the initial value.
HandlerNew == [h \in Handlers |-> NoHandler]

\* The Runner holds the receiving ends and the watch sender from
\* run_and_serve until handle_interaction returns.
RunnerServing == rn.pc \in {"select", "interact", "notify"}
RunnerGone == rn.pc \in {"done", "dropped"}
\* recv() of an mpsc channel returns None once every sender is dropped and
\* the queue is empty.
SendersDropped == \A h \in Handlers : hnd[h].pc = "dropped"

RunUnchanged == UNCHANGED <<queueVars, sessVars, ioVars, supVars, stopVars, copyVars, ngVars>>

\* Runner::run_and_serve takes the channel ends and enters
\* handle_interaction, which reads session.get_handler(): None for the
\* Session that new_pair made.
run_and_serve ==
    /\ rn.pc = "new"
    /\ rn' = [rn EXCEPT !.pc = "select", !.sh = FALSE]
    /\ UNCHANGED <<hnd, qint, qctl, wout, waiters, jchild, rhist>>
    /\ RunUnchanged

\* handle_interaction returning: res is run_and_serve's result.
RunnerReturn(res, why) == [rn EXCEPT !.pc = "done", !.res = res, !.why = why, !.cur = 0]

\* Session::spawn of the Runner's session: it starts the child in a session
\* of its own and keeps the SessionHandler; it fails when the program cannot
\* be started.
SessionSpawn == {"running", "none"}

\* The first select branch spawning the session for every request.
RecvInteraction_Respawn ==
    /\ rn.pc = "select"
    /\ qint # <<>>
    /\ qint' = Tail(qint)
    /\ \E c \in SessionSpawn :
        /\ jchild' = c
        /\ IF c = "none"
           THEN /\ rn' = RunnerReturn("Err", "spawn")
                /\ UNCHANGED rhist
           ELSE /\ rn' = [rn EXCEPT !.pc = "interact", !.cur = Head(qint).n, !.sh = TRUE]
                /\ rhist' = [rhist EXCEPT !.served = Append(@, Head(qint).n)]
    /\ UNCHANGED <<hnd, qctl, wout, waiters>>
    /\ RunUnchanged

\* The first select branch: a request is taken from the interaction channel;
\* the first one spawns the session.
RecvInteraction ==
    /\ rn.pc = "select"
    /\ qint # <<>>
    /\ qint' = Tail(qint)
    /\ \E c \in (IF rn.sh THEN {jchild} ELSE SessionSpawn) :
        /\ jchild' = c
        /\ IF ~rn.sh /\ c = "none"
           THEN /\ rn' = RunnerReturn("Err", "spawn")
                /\ UNCHANGED rhist
           ELSE /\ rn' = [rn EXCEPT !.pc = "interact", !.cur = Head(qint).n, !.sh = TRUE]
                /\ rhist' = [rhist EXCEPT !.served = Append(@, Head(qint).n)]
    /\ UNCHANGED <<hnd, qctl, wout, waiters>>
    /\ RunUnchanged

\* Session::interact of the Runner's session drives the child as an
\* InteractiveSession does: it returns the output once a running child has
\* printed the marker, fails when the child's stdout has ended, and does not
\* return while a stopped child prints nothing.
SessionInteract ==
    CASE jchild = "running" -> {"Ok"}
      [] jchild = "dead" -> {"Err"}
      [] OTHER -> {}

\* The interaction branch after session.interact returned Ok: the Runner
\* sends the output on the watch channel, which fails when no receiver is
\* left.
SessionInteractOk ==
    /\ rn.pc = "interact"
    /\ "Ok" \in SessionInteract
    /\ IF SendersDropped
       THEN /\ rn' = RunnerReturn("Err", "tx_out")
            /\ UNCHANGED wout
       ELSE /\ rn' = [rn EXCEPT !.pc = "notify"]
            /\ wout' = [val |-> rn.cur, ver |-> wout.ver + 1]
    /\ UNCHANGED <<hnd, qint, qctl, waiters, jchild, rhist>>
    /\ RunUnchanged

\* The interaction branch after session.interact failed: the error leaves
\* handle_interaction through the `?`.
SessionInteractErr ==
    /\ rn.pc = "interact"
    /\ "Err" \in SessionInteract
    /\ rn' = RunnerReturn("Err", "interact")
    /\ UNCHANGED <<hnd, qint, qctl, wout, waiters, jchild, rhist>>
    /\ RunUnchanged

\* notifier.notify_waiters(): every Handler registered at this moment is
\* woken; nothing is kept for a Handler that registers later.
notify_waiters ==
    /\ rn.pc = "notify"
    /\ hnd' = [h \in Handlers |->
                 IF h \in waiters THEN [hnd[h] EXCEPT !.pc = "woken"] ELSE hnd[h]]
    /\ waiters' = {}
    /\ rhist' = [rhist EXCEPT !.notified = @ \cup {rn.cur}]
    /\ rn' = [rn EXCEPT !.pc = "select", !.cur = 0]
    /\ UNCHANGED <<qint, qctl, wout, jchild>>
    /\ RunUnchanged

\* SessionHandler::pause, resume and terminate as the Runner sees them: Ok
\* with the signal's effect on the child, or an error.
SessionSignal(ctl, res) ==
    IF res = "Err" \/ jchild = "dead" THEN jchild
    ELSE CASE ctl = "Pause" -> "stopped"
           [] ctl = "Resume" -> "running"
           [] OTHER -> "dead"

\* break_control_session ignoring a message for a session that was not
\* started.
break_control_session_Lenient(sh, ctl, res) ==
    IF ~sh THEN "false"
    ELSE IF res = "Err" THEN "Err" ELSE IF ctl = "Quit" THEN "true" ELSE "false"

\* break_control_session: Ok(true) after a Quit, Ok(false) after Pause or
\* Resume, an error when the session was not started or the signal failed.
break_control_session(sh, ctl, res) ==
    IF ~sh \/ res = "Err" THEN "Err" ELSE IF ctl = "Quit" THEN "true" ELSE "false"

\* The second select branch: a control message is taken and applied; the
\* loop is left after a Quit and after an error, and handle_interaction
\* returns Ok.
RecvControl ==
    /\ rn.pc = "select"
    /\ qctl # <<>>
    /\ qctl' = Tail(qctl)
    /\ \E res \in {"Ok", "Err"} :
        LET b == break_control_session(rn.sh, Head(qctl), res) IN
        /\ rn.sh \/ res = "Err"
        /\ jchild' = IF rn.sh THEN SessionSignal(Head(qctl), res) ELSE jchild
        /\ rhist' = [rhist EXCEPT
                       !.termd = IF rn.sh /\ Head(qctl) = "Quit" THEN @ + 1 ELSE @]
        /\ rn' = IF b = "false" THEN rn
                 ELSE RunnerReturn("Ok", IF b = "true" THEN "quit" ELSE "control")
    /\ UNCHANGED <<hnd, qint, wout, waiters>>
    /\ RunUnchanged

\* The else branch of the select: both recv() calls returned None.
ElseBranch_Ok ==
    /\ rn.pc = "select"
    /\ SendersDropped /\ qint = <<>> /\ qctl = <<>>
    /\ rn' = RunnerReturn("Ok", "closed")
    /\ UNCHANGED <<hnd, qint, qctl, wout, waiters, jchild, rhist>>
    /\ RunUnchanged

ElseBranch ==
    /\ rn.pc = "select"
    /\ SendersDropped /\ qint = <<>> /\ qctl = <<>>
    /\ rn' = RunnerReturn("Err", "closed")
    /\ UNCHANGED <<hnd, qint, qctl, wout, waiters, jchild, rhist>>
    /\ RunUnchanged

\* The Runner is dropped after run_and_serve returned, or unused: Drop for
\* Session calls terminate on the SessionHandler it has and ignores the
\* result.
DropRunner ==
    /\ rn.pc \in {"new", "done"}
    /\ rn' = [rn EXCEPT !.pc = "dropped"]
    /\ \E res \in {"Ok", "Err"} :
        /\ jchild' = IF rn.sh THEN SessionSignal("Quit", res) ELSE jchild
        /\ rn.sh \/ res = "Ok"
    /\ rhist' = [rhist EXCEPT !.termd = IF rn.sh THEN @ + 1 ELSE @]
    /\ UNCHANGED <<hnd, qint, qctl, wout, waiters>>
    /\ RunUnchanged

\* Handler::interact, first await: the request enters the interaction
\* channel when it has room, and the send fails when the Runner has dropped
\* the receiver.
HandlerInteract ==
    \E h \in Handlers :
        /\ hnd[h].pc = "idle"
        /\ rhist.nints < MaxInts
        /\ IF RunnerGone
           THEN /\ UNCHANGED <<hnd, qint>>
                /\ rhist' = [rhist EXCEPT !.nints = @ + 1]
           ELSE /\ Len(qint) < ChannelCap
                /\ qint' = Append(qint, [h |-> h, n |-> rhist.nints + 1])
                /\ hnd' = [hnd EXCEPT ![h].pc = "sent", ![h].req = rhist.nints + 1]
                /\ rhist' = [rhist EXCEPT !.nints = @ + 1,
                                !.entered = Append(@, rhist.nints + 1)]
        /\ UNCHANGED <<qctl, wout, waiters, rn, jchild>>
        /\ RunUnchanged

\* recv_stdout, notifier.notified(): the Handler registers with the Notify
\* and waits for the next notify_waiters.
HandlerNotified ==
    \E h \in Handlers :
        /\ hnd[h].pc = "sent"
        /\ hnd' = [hnd EXCEPT ![h].pc = "waiting"]
        /\ waiters' = waiters \cup {h}
        /\ UNCHANGED <<qint, qctl, wout, rn, jchild, rhist>>
        /\ RunUnchanged

\* recv_stdout, rx_out.changed(): returns when the channel holds a version
\* this receiver has not seen, and fails when the sender is dropped.
HandlerChanged ==
    \E h \in Handlers :
        /\ hnd[h].pc = "woken"
        /\ hnd[h].seen # wout.ver \/ RunnerGone
        /\ IF hnd[h].seen # wout.ver
           THEN /\ hnd' = [hnd EXCEPT ![h].pc = "read", ![h].seen = wout.ver]
                /\ UNCHANGED rhist
           ELSE /\ hnd' = [hnd EXCEPT ![h].pc = "idle", ![h].req = 0]
                /\ UNCHANGED rhist
        /\ UNCHANGED <<qint, qctl, wout, waiters, rn, jchild>>
        /\ RunUnchanged

\* recv_stdout, rx_out.borrow(): the value the channel holds now is returned
\* as the Ok of interact (mixed: it is the output of another request).
HandlerBorrow ==
    \E h \in Handlers :
        /\ hnd[h].pc = "read"
        /\ hnd' = [hnd EXCEPT ![h].pc = "idle", ![h].req = 0]
        /\ rhist' = [rhist EXCEPT !.mixed = @ \/ wout.val # hnd[h].req]
        /\ UNCHANGED <<qint, qctl, wout, waiters, rn, jchild>>
        /\ RunUnchanged

\* Handler::pause, resume and terminate: the message enters the control
\* channel when it has room.
HandlerControl ==
    \E h \in Handlers, ctl \in Control :
        /\ hnd[h].pc # "dropped"
        /\ rhist.nctls < MaxCtls
        /\ ~RunnerGone
        /\ Len(qctl) < ChannelCap
        /\ qctl' = Append(qctl, ctl)
        /\ rhist' = [rhist EXCEPT !.nctls = @ + 1, !.quit = @ \/ ctl = "Quit"]
        /\ UNCHANGED <<hnd, qint, wout, waiters, rn, jchild>>
        /\ RunUnchanged

\* A Handler that is not in a call is dropped, and its senders and its
\* watch receiver with it.
DropHandler ==
    \E h \in Handlers :
        /\ hnd[h].pc = "idle"
        /\ hnd' = [hnd EXCEPT ![h].pc = "dropped"]
        /\ UNCHANGED <<qint, qctl, wout, waiters, rn, jchild, rhist>>
        /\ RunUnchanged

\* The child of the session exits by itself.
JobChildExit ==
    /\ jchild = "running"
    /\ jchild' = "dead"
    /\ UNCHANGED <<hnd, qint, qctl, wout, waiters, rn, rhist>>
    /\ RunUnchanged

\* ================================================================ supervisor
\* The single-job supervisor (src/src/session.rs): Session::run, the race of
\* Session::start and the kill that follows, and the ctrl-c wrapper of the
\* command line (src/src/cli/local.rs).
NoSupervisor == [pc |-> "new", timeout |-> 0, bytes |-> FALSE, v |-> "none",
                 out |-> FALSE, res |-> "none"]
Timeouts == 0..MaxTime

SupUnchanged == UNCHANGED <<queueVars, sessVars, ioVars, runVars, stopVars, copyVars, ngVars>>

\* Session::run returning res.
SupReturn(res) == [sup EXCEPT !.pc = "done", !.res = res]

\* Session::new(program).timeout(t), stdin_bytes, then run: start spawns the
\* program with a piped stdin and takes the child's pid as the session id;
\* a failed spawn leaves through the `?`.
SupSpawn ==
    \E t \in Timeouts, b \in BOOLEAN, ok \in BOOLEAN :
        /\ sup.pc = "new"
        /\ IF ok
           THEN /\ sup' = [sup EXCEPT !.pc = "write", !.timeout = t, !.bytes = b]
                /\ kids' = [kids EXCEPT !.first = "running"]
           ELSE /\ sup' = [SupReturn("Err") EXCEPT !.timeout = t, !.bytes = b]
                /\ UNCHANGED kids
        /\ UNCHANGED <<sclock, sigint, code>>
        /\ SupUnchanged

\* stdin.write_all(&stdin_bytes).await.expect(..): writing to a child that
\* has gone panics. Then command.output() spawns the program a second time,
\* with piped stdout and stderr, as the future the race waits for; the timer
\* and the ctrl-c listener are armed.
SupWriteOutput ==
    \E ok \in BOOLEAN :
        /\ sup.pc = "write"
        /\ IF sup.bytes /\ kids.first # "running"
           THEN /\ sup' = SupReturn("Panic")
                /\ UNCHANGED kids
           ELSE /\ sup' = [sup EXCEPT !.pc = "select"]
                /\ kids' = [kids EXCEPT !.second = IF ok THEN "running" ELSE "failed"]
        /\ UNCHANGED <<sclock, sigint, code>>
        /\ SupUnchanged

\* The select of Session::start.
\* The timer has expired.
SelectTimeout ==
    /\ sup.pc = "select"
    /\ sclock >= sup.timeout
    /\ sup' = [sup EXCEPT !.pc = "kill", !.v = "timeout"]
    /\ UNCHANGED <<kids, sclock, sigint, code>>
    /\ SupUnchanged

\* SIGINT has arrived.
SelectCtrlC ==
    /\ sup.pc = "select"
    /\ sigint
    /\ sup' = [sup EXCEPT !.pc = "kill", !.v = "interrupt"]
    /\ UNCHANGED <<kids, sclock, sigint, code>>
    /\ SupUnchanged

\* The output future is ready: the second child has exited and its output
\* is kept, or its spawn had failed and the error is only logged.
SelectOutput ==
    /\ sup.pc = "select"
    /\ kids.second \in {"exited", "failed"}
    /\ sup' = [sup EXCEPT !.pc = "kill", !.v = "completed",
                          !.out = (kids.second = "exited")]
    /\ UNCHANGED <<kids, sclock, sigint, code>>
    /\ SupUnchanged

\* The processes get_processes_in_session lists for the session of the
\* first child, in the order of their pids: the first child as long as it is
\* not waited for (start never waits for it), and the members that run.
Members == <<"first", "m1", "m2">>
SessionListing ==
    SelectSeq(Members, LAMBDA k : IF k = "first" THEN kids[k] \in {"running", "exited"}
                                  ELSE kids[k] = "running")

\* self.kill()? after the race, whoever won it: SIGKILL to the processes
\* listed for the session whose id is the first child's pid, one after the
\* other. A member that has gone between the listing and its kill (position
\* f of the listing) makes that kill fail, which ends the batch, and start
\* fails with it.
SupKill ==
    \E f \in 0..Len(SessionListing) :
        LET L == SessionListing
            at(k) == CHOOSE i \in 1..Len(L) : L[i] = k
        IN
        /\ sup.pc = "kill"
        /\ f > 0 => L[f] # "first"
        /\ kids' = [k \in DOMAIN kids |->
                      IF \E i \in 1..Len(L) : L[i] = k
                      THEN (IF f = 0 \/ at(k) < f
                            THEN (IF kids[k] = "running" THEN "killed" ELSE kids[k])
                            ELSE IF at(k) = f THEN "gone" ELSE kids[k])
                      ELSE kids[k]]
        /\ sup' = [sup EXCEPT !.pc = "take", !.res = IF f = 0 THEN "Ok" ELSE "Err"]
        /\ UNCHANGED <<sclock, sigint, code>>
        /\ SupUnchanged

\* Session::run after block_on(start())?: cmd_output.take().ok_or("no cmd
\* output").
SupTake ==
    /\ sup.pc = "take"
    /\ sup' = SupReturn(IF sup.res = "Err" THEN "Err"
                        ELSE IF sup.out THEN "Ok" ELSE "Err")
    /\ UNCHANGED <<kids, sclock, sigint, code>>
    /\ SupUnchanged

\* ctrlc_enter_main_: the main task has finished; `result?` passes on only
\* a panic of the task, and what enter_main returned is dropped.
MainTaskDone ==
    /\ code = "none"
    /\ sup.pc = "done"
    /\ code' = IF sup.res = "Panic" THEN "Err" ELSE "Ok"
    /\ UNCHANGED <<sup, kids, sclock, sigint>>
    /\ SupUnchanged

\* ctrlc_enter_main_: SIGINT has arrived; the wrapper returns Ok.
MainCtrlC ==
    /\ code = "none"
    /\ sigint
    /\ code' = "Ok"
    /\ UNCHANGED <<sup, kids, sclock, sigint>>
    /\ SupUnchanged

\* The environment of the supervisor: time passes once the timer is armed,
\* the user presses ctrl-c, a child exits by itself.
SupTick ==
    /\ sup.pc \notin {"new", "write"}
    /\ sclock < MaxTime
    /\ sclock' = sclock + 1
    /\ UNCHANGED <<sup, kids, sigint, code>>
    /\ SupUnchanged

UserInterrupt ==
    /\ ~sigint
    /\ sigint' = TRUE
    /\ UNCHANGED <<sup, kids, sclock, code>>
    /\ SupUnchanged

KidExit ==
    \E k \in {"first", "second"} :
        /\ kids[k] = "running"
        /\ kids' = [kids EXCEPT ![k] = "exited"]
        /\ UNCHANGED <<sup, sclock, sigint, code>>
        /\ SupUnchanged

\* The program forks: the new process is in the session of the first child.
KidFork ==
    \E m \in {"m1", "m2"} :
        /\ kids.first = "running"
        /\ kids[m] = "none"
        /\ kids' = [kids EXCEPT ![m] = "running"]
        /\ UNCHANGED <<sup, sclock, sigint, code>>
        /\ SupUnchanged

\* A forked process exits and is collected by its parent.
MemberExit ==
    \E m \in {"m1", "m2"} :
        /\ kids[m] = "running"
        /\ kids' = [kids EXCEPT ![m] = "gone"]
        /\ UNCHANGED <<sup, sclock, sigint, code>>
        /\ SupUnchanged

\* ================================================================ stop file
\* The STOP-file handler (src/src/stop.rs). Its path is the relative name
\* STOP, which every call resolves against the directory the process is in
\* at that moment.
StopDirs == {CwdDir, RootDir}
NoPoll == [res |-> "none", msg |-> <<>>]
\* bail!("found STOP file, stopping now ..."), word by word.
StopMessage == <<"found", "STOP", "file,", "stopping", "now", "...">>

StopUnchanged == UNCHANGED <<queueVars, sessVars, ioVars, runVars, supVars, copyVars, ngVars>>

\* StopFileHandler::new: a STOP file that exists is removed.
StopFileHandlerNew_Keep ==
    /\ ~sfh.made
    /\ UNCHANGED stop
    /\ sfh' = [sfh EXCEPT !.made = TRUE, !.cleaned = scwd \in stop]
    /\ UNCHANGED <<scwd, spoll>>
    /\ StopUnchanged

StopFileHandlerNew ==
    /\ ~sfh.made
    /\ stop' = IF scwd \in stop THEN stop \ {scwd} ELSE stop
    /\ sfh' = [sfh EXCEPT !.made = TRUE, !.cleaned = scwd \in stop]
    /\ UNCHANGED <<scwd, spoll>>
    /\ StopUnchanged

\* StopFileHandler::is_interrupted: stop_file.exists().
is_interrupted == scwd \in stop

\* StopFileHandler::handle_user_interruption, one poll.
handle_user_interruption ==
    /\ sfh.made
    /\ sfh.npolls < MaxPolls
    /\ spoll' = IF is_interrupted THEN [res |-> "Err", msg |-> StopMessage]
                ELSE [res |-> "Ok", msg |-> <<>>]
    /\ sfh' = [sfh EXCEPT !.npolls = @ + 1]
    /\ UNCHANGED <<stop, scwd>>
    /\ StopUnchanged

\* The user creates a STOP file in some directory, or removes one; the
\* process changes its directory.
TouchStop ==
    \E d \in StopDirs :
        /\ d \notin stop
        /\ stop' = stop \cup {d}
        /\ UNCHANGED <<scwd, sfh, spoll>>
        /\ StopUnchanged

RemoveStop ==
    \E d \in stop :
        /\ stop' = stop \ {d}
        /\ UNCHANGED <<scwd, sfh, spoll>>
        /\ StopUnchanged

ChangeDir ==
    \E d \in StopDirs :
        /\ d # scwd
        /\ scwd' = d
        /\ UNCHANGED <<stop, sfh, spoll>>
        /\ StopUnchanged

\* ================================================================ the pipes
\* Computation::start and the pipes of its child (src/src/job.rs): the child
\* is a script that prints to stdout ("o") and to stderr ("e") in some order
\* and then exits; a pipe holds PipeCap bytes and a write to a full pipe
\* waits until the reader has taken something out.
Prints == {"o", "e"}
Scripts == UNION {[1..n -> Prints] : n \in 0..MaxScript}
NoCopy == [pc |-> "new", fout |-> 0, ferr |-> 0]

CopyUnchanged == UNCHANGED <<queueVars, sessVars, ioVars, runVars, supVars, stopVars, ngVars>>

\* spawn_session with the three pipes, the input written, and File::create
\* of the output and the error file.
StartSpawn ==
    /\ cpy.pc = "new"
    /\ \E sc \in Scripts : script' = [todo |-> sc, open |-> TRUE]
    /\ cpy' = [cpy EXCEPT !.pc = "stdout"]
    /\ UNCHANGED pipes
    /\ CopyUnchanged

\* io::copy(&mut stdout, &mut fout): a byte moves from the pipe to the file.
CopyStdout ==
    /\ cpy.pc = "stdout"
    /\ pipes.out > 0
    /\ pipes' = [pipes EXCEPT !.out = @ - 1]
    /\ cpy' = [cpy EXCEPT !.fout = @ + 1]
    /\ UNCHANGED script
    /\ CopyUnchanged

\* The first copy returns at the end of file of stdout and the copy of
\* stderr begins.
CopyStdoutEof ==
    /\ cpy.pc = "stdout"
    /\ pipes.out = 0
    /\ ~script.open
    /\ cpy' = [cpy EXCEPT !.pc = "stderr"]
    /\ UNCHANGED <<pipes, script>>
    /\ CopyUnchanged

\* io::copy(&mut stderr, &mut ferr).
CopyStderr ==
    /\ cpy.pc = "stderr"
    /\ pipes.err > 0
    /\ pipes' = [pipes EXCEPT !.err = @ - 1]
    /\ cpy' = [cpy EXCEPT !.ferr = @ + 1]
    /\ UNCHANGED script
    /\ CopyUnchanged

\* The second copy returns at the end of file of stderr; start stores the
\* session and returns Ok.
CopyStderrEof ==
    /\ cpy.pc = "stderr"
    /\ pipes.err = 0
    /\ ~script.open
    /\ cpy' = [cpy EXCEPT !.pc = "done"]
    /\ UNCHANGED <<pipes, script>>
    /\ CopyUnchanged

\* The child prints a byte to stdout, if the pipe has room.
ScriptPrint ==
    /\ script.open
    /\ script.todo # <<>>
    /\ Head(script.todo) = "o"
    /\ pipes.out < PipeCap
    /\ pipes' = [pipes EXCEPT !.out = @ + 1]
    /\ script' = [script EXCEPT !.todo = Tail(@)]
    /\ UNCHANGED cpy
    /\ CopyUnchanged

\* The child prints a byte to stderr, if the pipe has room.
ScriptPrintErr ==
    /\ script.open
    /\ script.todo # <<>>
    /\ Head(script.todo) = "e"
    /\ pipes.err < PipeCap
    /\ pipes' = [pipes EXCEPT !.err = @ + 1]
    /\ script' = [script EXCEPT !.todo = Tail(@)]
    /\ UNCHANGED cpy
    /\ CopyUnchanged

\* The child has printed everything and exits: both pipes are closed.
ScriptExit ==
    /\ script.open
    /\ script.todo = <<>>
    /\ script' = [script EXCEPT !.open = FALSE]
    /\ UNCHANGED <<cpy, pipes>>
    /\ CopyUnchanged

\* ================================================================ nailgun
\* The chunk decoder of the Nailgun client (src/src/bin/ng.rs). A chunk on
\* the wire is a header of HEADER_SIZE bytes, the payload length as a
\* big-endian u32 and one byte for the chunk type, followed by the payload.
HEADER_SIZE == 5
\* b'X', b'1', b'2', b'S'.
ChunkNames == [x \in {88, 49, 50, 83} |->
                 CASE x = 88 -> "Exit" [] x = 49 -> "Stdout"
                   [] x = 50 -> "Stderr" [] OTHER -> "StartReadingStdin"]
\* The chunk types the server of the model sends, and their payloads.
SentTypes == {88, 49}
Payload(n) == [i \in 1..n |-> 49]
SentChunks == [type : SentTypes, payload : {Payload(n) : n \in 0..MaxPayload}]

NgUnchanged == UNCHANGED <<queueVars, sessVars, ioVars, runVars, supVars, stopVars, copyVars>>

\* put_u32_be and get_u32_be.
put_u32_be(n) == <<(n \div 16777216) % 256, (n \div 65536) % 256, (n \div 256) % 256, n % 256>>
get_u32_be(h) == h[1] * 16777216 + h[2] * 65536 + h[3] * 256 + h[4]

\* A chunk as the protocol puts it on the wire.
EncodeChunk(c) == put_u32_be(Len(c.payload)) \o <<c.type>> \o c.payload

RECURSIVE EncodeAll(_)
EncodeAll(cs) == IF cs = <<>> THEN <<>> ELSE EncodeChunk(Head(cs)) \o EncodeAll(Tail(cs))

\* The OutputChunk of a type byte and a payload: Exit carries the code 0
\* whatever the payload, StartReadingStdin carries nothing.
OutputChunk(t, payload) ==
    [kind |-> ChunkNames[t],
     data |-> IF t \in {49, 50} THEN payload ELSE <<>>]

\* Decoder::decode on the buffer buf: what it returns and what it leaves in
\* the buffer. split_to(HEADER_SIZE) takes the header out of the buffer
\* before the length of the rest is tested.
decode(buf) ==
    IF Len(buf) < HEADER_SIZE
    THEN [res |-> "None", buf |-> buf, chunk |-> <<>>]
    ELSE LET header == SubSeq(buf, 1, HEADER_SIZE)
             rest == SubSeq(buf, HEADER_SIZE + 1, Len(buf))
             length == get_u32_be(header)
         IN IF Len(rest) < length
            THEN [res |-> "None", buf |-> rest, chunk |-> <<>>]
            ELSE LET payload == SubSeq(rest, 1, length)
                     left == SubSeq(rest, length + 1, Len(rest))
                 IN IF header[5] \in DOMAIN ChunkNames
                    THEN [res |-> "Some", buf |-> left,
                          chunk |-> <<OutputChunk(header[5], payload)>>]
                    ELSE [res |-> "Panic", buf |-> left, chunk |-> <<>>]

\* The server writes its chunks to the connection.
NgSend ==
    /\ ngst = "new"
    /\ \E n \in 1..MaxChunks : \E cs \in [1..n -> SentChunks] :
        /\ ngsent' = cs
        /\ ngwire' = EncodeAll(cs)
    /\ ngst' = "idle"
    /\ UNCHANGED <<ngbuf, ngout>>
    /\ NgUnchanged

\* A read of the socket appends the next k bytes of the stream to the
\* buffer, however the stream was cut into packets.
NgArrive ==
    \E k \in 1..Len(ngwire) :
        /\ ngst \in {"idle", "fresh"}
        /\ ngbuf' = ngbuf \o SubSeq(ngwire, 1, k)
        /\ ngwire' = SubSeq(ngwire, k + 1, Len(ngwire))
        /\ ngst' = "fresh"
        /\ UNCHANGED <<ngsent, ngout>>
        /\ NgUnchanged

\* The framed reader calls decode after a read, and again after every chunk
\* it got; after a None it waits for more bytes.
NgDecode ==
    LET r == decode(ngbuf) IN
    /\ ngst = "fresh"
    /\ ngbuf' = r.buf
    /\ ngout' = ngout \o r.chunk
    /\ ngst' = CASE r.res = "Some" -> "fresh"
                 [] r.res = "None" -> "idle"
                 [] OTHER -> "panic"
    /\ UNCHANGED <<ngsent, ngwire>>
    /\ NgUnchanged

Init ==
    /\ slots = <<>>
    /\ free = <<>>
    /\ mapping = {}
    /\ ndirs = 0
    /\ dirs = {}
    /\ fs = <<>>
    /\ child = <<>>
    /\ now = 0
    /\ wj = Idle
    /\ blocked = <<>>
    /\ nputs = 0
    /\ issued = <<>>
    /\ removed = {}
    /\ dropped = {}
    /\ meddled = {}
    /\ procs = [p \in Pids |-> NoProc]
    /\ handle = NoProcess
    /\ hop = NoOp
    /\ hret = NoRet
    /\ sdropped = FALSE
    /\ stray = FALSE
    /\ nborn = 0
    /\ ispawned = FALSE
    /\ sout = <<>>
    /\ seof = FALSE
    /\ rpos = 0
    /\ sin = <<>>
    /\ iret = NoInteract
    /\ iall = <<>>
    /\ hnd = HandlerNew
    /\ qint = <<>>
    /\ qctl = <<>>
    /\ wout = [val |-> 0, ver |-> 0]
    /\ waiters = {}
    /\ rn = NoRunner
    /\ jchild = "none"
    /\ rhist = NoHist
    /\ sup = NoSupervisor
    /\ kids = [first |-> "none", second |-> "none", m1 |-> "none", m2 |-> "none"]
    /\ sclock = 0
    /\ sigint = FALSE
    /\ code = "none"
    /\ stop = {}
    /\ scwd = CwdDir
    /\ sfh = [made |-> FALSE, cleaned |-> FALSE, npolls |-> 0]
    /\ spoll = NoPoll
    /\ cpy = NoCopy
    /\ pipes = [out |-> 0, err |-> 0]
    /\ script = [todo |-> <<>>, open |-> FALSE]
    /\ ngsent = <<>>
    /\ ngwire = <<>>
    /\ ngbuf = <<>>
    /\ ngout = <<>>
    /\ ngst = "new"

\* The registry and the sessions: every operation that changes the set of
\* stored Computations, wait_job step by step, the tasks it makes wait, and
\* the life of the children. Uploads and the clock touch neither.
RegistryNext ==
    \/ InsertJob
    \/ UpdateJob
    \/ GetJobList
    \/ ClearJobs
    \/ DeleteJob
    \/ WaitJob
    \/ Block
    \/ Unblock
    \/ StartCreate
    \/ StartReturn
    \/ WaitReturn
    \/ WaitCancel
    \/ CloseStdio
    \/ Exit

RegistrySpec == Init /\ [][RegistryNext]_vars

\* The files of the working directories as clients write and read them.
FileNext ==
    \/ InsertJob
    \/ UpdateJob
    \/ PutJobFile
    \/ GetJobFile
    \/ ListJobFiles
    \/ ClearJobs
    \/ DeleteJob

FileSpec == Init /\ [][FileNext]_vars

\* One run after another of a job's script: what the supervisor and the
\* script write into the working directory, and when.
RunNext ==
    \/ InsertJob
    \/ WaitJob
    \/ StartCreate
    \/ StartCopy
    \/ StartReturn
    \/ WaitReturn
    \/ WaitCancel
    \/ CloseStdio
    \/ Exit
    \/ Write
    \/ Remove
    \/ Tick

RunSpec == Init /\ [][RunNext]_vars

\* One Session and the operations of its SessionHandler, signal by signal,
\* while the processes of the system come and go.
SessionNext ==
    \/ SpawnSession
    \/ pause
    \/ resume
    \/ HandlerTerminate
    \/ SessionDrop
    \/ SendCheck
    \/ SendList
    \/ SendKill
    \/ ProcExit
    \/ ProcReap
    \/ Fork
    \/ Reuse

SessionSpec == Init /\ [][SessionNext]_vars

\* One InteractiveSession: its caller's interact calls and what the child
\* writes to its stdout.
InteractNext ==
    \/ InteractiveSpawn
    \/ InteractUnspawned
    \/ InteractBrokenPipe
    \/ interact
    \/ ChildPrint
    \/ ChildClose

InteractSpec == Init /\ [][InteractNext]_vars

\* One Runner and its Handlers: the Runner's loop, the Handlers' calls and
\* drops, and the child of the session.
RunnerNext ==
    \/ run_and_serve
    \/ RecvInteraction
    \/ SessionInteractOk
    \/ SessionInteractErr
    \/ notify_waiters
    \/ RecvControl
    \/ ElseBranch
    \/ DropRunner
    \/ HandlerInteract
    \/ HandlerNotified
    \/ HandlerChanged
    \/ HandlerBorrow
    \/ HandlerControl
    \/ DropHandler
    \/ JobChildExit

RunnerSpec == Init /\ [][RunnerNext]_vars

\* The scheduling of the Runner's task and of the Handlers' tasks: a task
\* that can take its next step takes it; select! picks among its ready
\* branches at random, so a branch that is ready again and again is taken;
\* a running child answers the interaction it was sent.
RunnerFairness ==
    /\ WF_vars(run_and_serve)
    /\ SF_vars(RecvInteraction)
    /\ SF_vars(RecvControl)
    /\ WF_vars(SessionInteractOk)
    /\ WF_vars(SessionInteractErr)
    /\ WF_vars(notify_waiters)
    /\ WF_vars(ElseBranch)
    /\ WF_vars(HandlerNotified)
    /\ WF_vars(HandlerChanged)
    /\ WF_vars(HandlerBorrow)

RunnerFairSpec == RunnerSpec /\ RunnerFairness

\* The single-job supervisor, its children, its clock and the user.
SuperNext ==
    \/ SupSpawn
    \/ SupWriteOutput
    \/ SelectTimeout
    \/ SelectCtrlC
    \/ SelectOutput
    \/ SupKill
    \/ SupTake
    \/ MainTaskDone
    \/ MainCtrlC
    \/ SupTick
    \/ UserInterrupt
    \/ KidExit
    \/ KidFork
    \/ MemberExit

SuperSpec == Init /\ [][SuperNext]_vars

\* The STOP-file handler, the user's STOP files and the process's directory.
StopNext ==
    \/ StopFileHandlerNew
    \/ handle_user_interruption
    \/ TouchStop
    \/ RemoveStop
    \/ ChangeDir

StopSpec == Init /\ [][StopNext]_vars

\* Computation::start draining the pipes of one child. Both the copier and
\* the child are scheduled whenever they can take a step.
CopyNext ==
    \/ StartSpawn
    \/ CopyStdout
    \/ CopyStdoutEof
    \/ CopyStderr
    \/ CopyStderrEof
    \/ ScriptPrint
    \/ ScriptPrintErr
    \/ ScriptExit

CopySpec == Init /\ [][CopyNext]_vars

CopyFairSpec == CopySpec /\ WF_vars(CopyNext)

\* The Nailgun decoder reading a stream of chunks in fragments.
NgNext ==
    \/ NgSend
    \/ NgArrive
    \/ NgDecode

NgSpec == Init /\ [][NgNext]_vars

\* ================================================================ claims
\* C1: the ids insert_job returns in one queue start at 1 and each is greater
\* than every id returned before it, so none is returned twice, also when
\* the insert follows delete_job or clear_jobs.
C1_IdsIncrease ==
    /\ issued # <<>> => issued[1] = 1
    /\ \A i, j \in DOMAIN issued : i < j => issued[i] < issued[j]

\* An id was issued into a slot that a removal had freed.
C1_Witness ==
    /\ Len(issued) >= 2
    /\ removed # {}
    /\ \E k \in LiveKeys(slots) : k[2] >= 3 /\ get_by_right(k) = issued[Len(issued)]

\* C2 as stated: a job is started at most once, wait_job spawns the child
\* only if the job has not been started yet. While start is running a child
\* it has just spawned, the job holds no session of an earlier start.
C2_StartedAtMostOnce ==
    wj.pc \in {"spawned", "copy"} => ~is_started(Comp(wj.key))

\* C3 as stated: a delete_job(id) called while wait_job(id) awaits a running
\* child takes effect while the child runs. Whenever such a call is still
\* pending, the child has not run to its own end: either it is running, or
\* its session was signalled and its working directory is gone.
C3_DeleteDuringWait ==
    \A i \in DOMAIN blocked :
        (/\ blocked[i].r.op = "delete_job"
         /\ blocked[i].r.id = wj.id
         /\ blocked[i].running
         /\ wj.pc = "wait"
         /\ child[wj.child].st # "running")
        => /\ "SIGTERM" \in {child[wj.child].sigs[n] : n \in DOMAIN child[wj.child].sigs}
           /\ Comp(wj.key).wrk_dir \notin dirs

\* C4: update_job answers AlreadyStarted for a stored job that holds a
\* session and then changes neither the registry, the directories, the
\* files nor the children; a stored Computation is replaced under its key
\* only if it held no session, and update_job on such a job stores the new
\* Computation in a fresh directory.
C4_UpdateGuard ==
    [][/\ \A id \in LiveIds :
              LET k == check_job(id) IN
              IF Comp(k).session # 0
              THEN /\ update_job_res(id) = "AlreadyStarted"
                   /\ \A j \in JobKinds :
                          (Ready /\ update_job(id, j)) => UNCHANGED <<slots, dirs, fs, child>>
              ELSE /\ update_job_res(id) = "Ok"
                   /\ \A j \in JobKinds :
                          (Ready /\ update_job(id, j)) =>
                              /\ slots'[k[1]] = [ver |-> k[2], val |-> NewComp(j)]
                              /\ Comp(k).wrk_dir \notin dirs'
       /\ \A i \in DOMAIN slots :
              (/\ slots'[i].ver = slots[i].ver
               /\ slots[i].ver % 2 = 1
               /\ slots'[i].val.wrk_dir # slots[i].val.wrk_dir)
              => slots[i].val.session = 0
      ]_vars

\* A job was replaced before it was started, and update_job now rejects it.
C4_Witness ==
    /\ ndirs > Len(issued)
    /\ dropped # {}
    /\ removed = {}
    /\ \E id \in LiveIds :
           /\ Comp(check_job(id)).session # 0
           /\ update_job_res(id) = "AlreadyStarted"

\* C5 as stated: once delete_job or clear_jobs removed an id, every later
\* operation naming it fails with NotFound and does not panic.
C5_RemovedIsNotFound ==
    \A id \in removed :
        /\ delete_job_res(id) = "NotFound"
        /\ wait_job_res(id) = "NotFound"
        /\ update_job_res(id) = "NotFound"
        /\ put_job_file_res(id) = "NotFound"
        /\ list_job_files_res(id) = "NotFound"
        /\ \A n \in FileNames : get_job_file_res(id, n) = "NotFound"

\* C6 as stated: get_job_list is exactly the ids issued and not removed
\* since, and the id-to-key mapping is a bijection onto the stored
\* Computations.
C6_ListAndBijection ==
    /\ get_job_list_res = "Ok"
    /\ get_job_list = {issued[i] : i \in DOMAIN issued} \ removed
    /\ \A p, q \in mapping : (p[1] = q[1]) <=> (p[2] = q[2])
    /\ {p[2] : p \in mapping} = LiveKeys(slots)

C8_PutThenGet ==
    [][\A id \in IdArgs, n \in FileNames, b \in Bodies :
           (Ready /\ put_job_file(id, n, b) /\ put_job_file_res(id) = "Ok")
           => /\ get_job_file_res(id, n)' = "Ok"
              /\ get_job_file_val(id, n)' = b
      ]_vars

\* A shorter body was put over a longer one and is what get_job_file returns.
C8_Witness ==
    /\ nputs >= 2
    /\ \E id \in LiveIds :
           /\ get_job_file_res(id, "x") = "Ok"
           /\ get_job_file_val(id, "x") = <<7>>

\* C9 as stated: no put_job_file or get_job_file call writes or reads a file
\* outside the working directory of the job it names.
C9_NamesStayInside ==
    /\ \A p \in DOMAIN fs : p[1] \notin {CwdDir, RootDir}
    /\ \A id \in LiveIds, n \in FileNames :
           Resolve(Comp(check_job(id)).wrk_dir, n)[1] # Comp(check_job(id)).wrk_dir
           => get_job_file_res(id, n) # "Ok"

\* C10 as stated: when wait_job returns Ok, is_done() is true of the job.
C10_DoneAfterWait ==
    [][WaitReturn => is_done_in(dirs', fs', Comp(wj.key))]_vars

\* C10, amended: when wait_job returns Ok for a job whose children neither
\* wrote or removed the input file nor removed the output file, is_done()
\* is true.
C10_DoneAfterQuietRun ==
    [][(WaitReturn /\ Comp(wj.key).wrk_dir \notin meddled)
       => is_done_in(dirs', fs', Comp(wj.key))]_vars

\* wait_job has returned Ok for a job whose output was written after the
\* clock had moved on from the input, and is_done() is true.
C10_Witness ==
    /\ wj.pc = "idle"
    /\ \E k \in LiveKeys(slots) :
           /\ Comp(k).session # 0
           /\ child[Comp(k).session].st = "reaped"
           /\ Comp(k).wrk_dir \notin meddled
           /\ is_done(Comp(k))
           /\ fs[<<Comp(k).wrk_dir, "job.out">>].mtime > fs[<<Comp(k).wrk_dir, "job.inp">>].mtime

\* C11 as stated: when wait_job returns Ok for a job whose child wrote the
\* output file itself and nothing copied from its stdout is in that file,
\* get_job_file(id, "job.out") returns the bytes the child wrote, however the
\* child's write and the supervisor's creation of the file interleave.
C11_ScriptOutputKept ==
    [][\A id \in IdArgs :
           (/\ WaitReturn
            /\ wj.id = id
            /\ child[wj.child].wrote
            /\ Comp(wj.key).wrk_dir \notin meddled
            /\ \A n \in DOMAIN fs[OutFile].data : fs[OutFile].data[n] # 4)
           => /\ get_job_file_res(id, "job.out")' = "Ok"
              /\ get_job_file_val(id, "job.out")' = <<5>>]_vars

\* C12 as stated: the drop of a Session calls for SIGCONT and then for
\* SIGTERM; the SIGTERM batch is attempted in every teardown, whatever
\* became of the SIGCONT batch.
C12_DropSendsBoth ==
    hret.kind = "drop" => hret.tried = <<"SIGCONT", "SIGTERM">>

\* C13 as stated, for a leader that does not ignore SIGTERM: once the
\* Session has been dropped, the leader recorded at spawn is not alive.
C13_LeaderDeadAfterDrop ==
    (sdropped /\ LeaderAlive) => procs[handle.pid].ign

\* C14 as stated: no operation of the handler delivers a signal to a
\* process that does not belong to the session spawned for it.
C14_NoStraySignal == ~stray

\* C15 as stated: pause, resume and terminate called when the leader is no
\* longer alive, or when its pid is held by another process, return an error.
C15_GoneIsError ==
    (hret.kind \in {"pause", "resume", "terminate"} /\ hret.gone) => hret.res = "Err"

\* C16 as stated: when pause returns Ok, every live process that
\* get_processes returns for the session is stopped, also when a member
\* forked while the batch was being delivered.
C16_PauseStopsAll ==
    [][(/\ hop.kind = "pause"
        /\ hop'.pc = "idle"
        /\ hret'.res = "Ok")
       => \A p \in Pids :
              (/\ procs'[p].sess = handle.pid
               /\ procs'[p].orig
               /\ procs'[p].st \in {"run", "stop"})
              => procs'[p].st = "stop"]_vars

\* ---------------------------------------------------------------- interact
\* An interact call that got as far as reading returns in this step.
InteractReturns ==
    /\ ispawned
    /\ <<iret, rpos, sin>>' # <<iret, rpos, sin>>
    /\ iret'.res \notin {"Io", "Panic"}

\* The bytes seg with every "\r\n" turned into "\n".
RECURSIVE DropCR(_)
DropCR(seg) ==
    IF seg = <<>> THEN <<>>
    ELSE IF Len(seg) >= 2 /\ seg[1] = CR /\ seg[2] = NL THEN DropCR(Tail(seg))
    ELSE <<Head(seg)>> \o DropCR(Tail(seg))

\* The line of the text t that ends with the newline at position e.
LineEndingAt(t, e) ==
    LET before == {i \in 1..(e - 1) : t[i] = NL}
        start == IF before = {} THEN 1
                 ELSE 1 + CHOOSE i \in before : \A j \in before : j <= i
    IN SubSeq(t, start, e - 1)

\* The marker m occurs in the bytes the reader has not consumed.
MatchLeft(m) ==
    IF m = <<>> THEN rpos < Len(sout)
    ELSE \E i \in (rpos + 1)..(Len(sout) - Len(m) + 1) :
             \A j \in 1..Len(m) : sout[i + j - 1] = m[j]

\* C17: when interact returns Ok, the bytes it consumed are the bytes of
\* stdout from where the previous call stopped up to the end of a line;
\* the text returned is those bytes with each line ended by "\n"; its last
\* line contains the marker and no earlier line does.
C17_InteractReturnsLines ==
    [][(InteractReturns /\ iret'.res = "Ok") =>
           LET seg == SubSeq(sout, rpos + 1, rpos')
               t == iret'.text
               m == iret'.marker
           IN /\ rpos < rpos' /\ rpos' <= Len(sout)
              /\ seg[Len(seg)] = NL \/ (seof /\ rpos' = Len(sout))
              /\ t = DropCR(seg) \o (IF seg[Len(seg)] = NL THEN <<>> ELSE <<NL>>)
              /\ \A e \in 1..Len(t) :
                     t[e] = NL => (Contains(LineEndingAt(t, e), m) <=> e = Len(t))
      ]_vars

\* interact returned two lines, the second one with the marker, and left a
\* byte of stdout unread.
C17_Witness ==
    /\ iret.res = "Ok"
    /\ iret.marker = <<1>>
    /\ Cardinality({i \in 1..Len(iret.text) : iret.text[i] = NL}) = 2
    /\ rpos < Len(sout)

\* C18: an interact with an empty input writes nothing to stdin and still
\* reads; when the next line of stdout contains the marker it returns Ok
\* with exactly that line and its newline.
C18_EmptyInput ==
    [][(InteractReturns /\ iret'.input = <<>>) =>
           /\ sin' = sin
           /\ \A n \in (rpos + 1)..Len(sout) :
                  (/\ sout[n] = NL
                   /\ \A i \in (rpos + 1)..(n - 1) : sout[i] \in Letters
                   /\ \E i \in (rpos + 1)..(n - 1) : iret'.marker = <<sout[i]>>)
                  => /\ iret'.res = "Ok"
                     /\ iret'.text = SubSeq(sout, rpos + 1, n)
                     /\ rpos' = n
      ]_vars

\* The first interact, with an empty input, returned the first line of
\* stdout, which is the marker; nothing was written to stdin.
C18_Witness ==
    /\ iret.res = "Ok"
    /\ iret.input = <<>>
    /\ iret.text = <<1, NL>>
    /\ rpos = 2
    /\ sin = <<>>

\* C19: an interact that reads stdout to its end (no line on the way stops
\* it as invalid UTF-8) without a line containing the marker fails with
\* PatternNotFound and returns no text.
C19_EofBeforeMarker ==
    [][(/\ InteractReturns /\ seof /\ ~MatchLeft(iret'.marker)
        /\ \A i \in (rpos + 1)..Len(sout) : sout[i] # Bad) =>
           /\ iret'.res = "PatternNotFound"
           /\ iret'.text = <<>>
           /\ rpos' = Len(sout)
      ]_vars

\* interact failed with PatternNotFound after reading lines without the marker.
C19_Witness ==
    /\ iret.res = "PatternNotFound"
    /\ iret.text = <<>>
    /\ iret.marker = <<1>>
    /\ seof
    /\ rpos = Len(sout)
    /\ \E i \in 1..Len(sout) : sout[i] = 2

\* C20 as stated: when the marker is found and nothing preceded it, interact
\* fails with EmptyOutput and does not return Ok.
C20_EmptyOutput ==
    (iret.res = "Ok" /\ iret.marker # <<>>) => iret.text # iret.marker \o <<NL>>

\* C20, amended: interact never fails with EmptyOutput; the text of an Ok is
\* never empty, since it ends with the matching line and its newline, and
\* that holds when nothing preceded the marker.
C20_TextNeverEmpty ==
    /\ iret.res # "EmptyOutput"
    /\ iret.res = "Ok" =>
           /\ iret.text # <<>>
           /\ iret.text[Len(iret.text)] = NL
           /\ Contains(LineEndingAt(iret.text, Len(iret.text)), iret.marker)

\* interact returned Ok with a text that is the newline of an empty line,
\* matched by the empty pattern.
C20_Witness ==
    /\ iret.res = "Ok"
    /\ iret.marker = <<>>
    /\ iret.text = <<NL>>

\* C21: once a Handler has sent Quit, the Runner eventually leaves its loop,
\* and the session it started has by then been sent terminate or has ended,
\* whatever interaction or control messages are queued or in flight at that
\* moment.
C21_QuitEndsRunner ==
    rhist.quit ~> (RunnerGone /\ (rn.sh => (rhist.termd > 0 \/ jchild = "dead")))

\* C22: when the sending ends of the Runner's inbound channels are dropped,
\* the loop exits and run_and_serve returns Ok, a clean exit and not an
\* error; and dropping the Runner calls terminate on the session it started.
C22_DroppedEndsCleanExit ==
    /\ (RunnerGone /\ rn.why = "closed") => rn.res = "Ok"
    /\ (rn.pc = "dropped" /\ rn.sh) => rhist.termd > 0

\* C22, amended: the loop is left for closed channels only when every
\* sender is dropped and both channels are drained, and run_and_serve then
\* returns an error; it returns Ok only when a control message ended the
\* loop; and dropping the Runner calls terminate on the session it started.
C22_DroppedEndsError ==
    /\ (RunnerGone /\ rn.why = "closed")
          => (rn.res = "Err" /\ SendersDropped /\ qint = <<>> /\ qctl = <<>>)
    /\ (RunnerGone /\ rn.res = "Ok") => rn.why \in {"quit", "control"}
    /\ (rn.pc = "dropped" /\ rn.sh) => rhist.termd > 0

C22_Witness ==
    /\ rn.pc = "dropped" /\ rn.why = "closed" /\ rn.res = "Err"
    /\ rn.sh /\ rhist.termd = 1 /\ rhist.served # <<>>

\* C23: a Handler's interact that returns Ok returns the output the Runner
\* produced for the request of that very call, also with several Handlers;
\* and the Runner serves the requests in the order they entered the
\* interaction channel.
C23_OwnOutputFifo ==
    /\ ~rhist.mixed
    /\ Len(rhist.served) <= Len(rhist.entered)
    /\ \A i \in DOMAIN rhist.served : rhist.served[i] = rhist.entered[i]

\* C24: every interact call whose request the Runner served, published and
\* notified eventually returns, also when the Runner notifies before the
\* Handler waits on the notifier.
C24_ServedCallReturns ==
    \A k \in 1..MaxInts :
        (k \in rhist.notified)
            ~> (\A h \in Handlers : hnd[h].req = k => hnd[h].pc \in {"idle", "dropped"})

\* C25: in the single-job supervisor, the branch of the race that wins is one
\* whose event has happened; and when the timeout or the interrupt wins, no
\* process the supervisor started for the program is still running when run
\* returns.
C25_NoSurvivor ==
    /\ sup.v = "timeout" => sclock >= sup.timeout
    /\ sup.v = "interrupt" => sigint
    /\ sup.v = "completed" => kids.second \in {"exited", "failed"}
    /\ (sup.pc = "done" /\ sup.v \in {"timeout", "interrupt"})
          => (kids.first # "running" /\ kids.second # "running")

\* C26: the supervisor's result is success only when the supervised program
\* ran to completion, and a failure whenever the timeout (a timeout of 0
\* included) or a user interruption ended the run: for Session::run and for
\* the command line's ctrlc_enter_main.
C26_FailureWhenCutShort ==
    /\ (sup.pc = "done" /\ sup.res = "Ok") => (sup.v = "completed" /\ sup.out)
    /\ (sup.pc = "done" /\ sup.v \in {"timeout", "interrupt"}) => sup.res = "Err"
    /\ code = "Ok" => (sup.pc = "done" /\ sup.v = "completed" /\ sup.out)
    /\ (code # "none" /\ sup.v \in {"timeout", "interrupt"}) => code = "Err"

\* C27: Session::run returns Ok for a program that was spawned successfully
\* also when the timeout expires before the program exits.
C27_RunOkOnTimeout ==
    (sup.pc = "done" /\ sup.v = "timeout" /\ kids.second # "failed" /\ sup.timeout > 0)
        => sup.res = "Ok"

\* C28: StopFileHandler removes a STOP file that exists in the current
\* directory when it is constructed; afterwards every
\* handle_user_interruption returns Ok when the current directory holds no
\* STOP file and fails with a message that mentions STOP when it holds one.
C28_StopFilePolls ==
    [][/\ (~sfh.made /\ sfh'.made) => (scwd \notin stop' /\ stop' = stop \ {scwd})
       /\ (sfh'.npolls # sfh.npolls)
             => /\ sfh.made
                /\ (scwd \notin stop) => spoll'.res = "Ok"
                /\ (scwd \in stop)
                     => /\ spoll'.res = "Err"
                        /\ \E i \in DOMAIN spoll'.msg : spoll'.msg[i] = "STOP"]_vars

C28_Witness ==
    /\ sfh.made /\ sfh.cleaned /\ sfh.npolls >= 2
    /\ spoll.res = "Err" /\ scwd \in stop

\* C29: while one wait_job awaits the exit of its running child, no queue
\* operation of another task is left waiting for the registry lock.
C29_NoWaitForLock ==
    (wj.pc = "wait" /\ child[wj.child].st = "running") => blocked = <<>>

\* C30: within one signal batch, a delivery that fails on one member does
\* not end the batch: the batch goes on with the members enumerated after
\* it, and the failure is reported once the last one has been tried.
C30_BatchGoesOn ==
    [][(/\ hop.pc = "kill"
        /\ hop' # hop
        /\ procs[Head(hop.todo)].st = "none")
       => IF Len(hop.todo) > 1
          THEN hop'.pc = "kill" /\ hop'.todo = Tail(hop.todo)
          ELSE hret'.res = "Err"]_vars

\* C31: start drains stdout and stderr concurrently, so it returns for every
\* child that terminates once its output is consumed, also for a child that
\* fills the stderr pipe before it closes stdout.
C31_StartReturns == (cpy.pc = "stdout") ~> (cpy.pc = "done")

\* C32: the Runner spawns the child on the first interaction request it
\* takes while the session is not started, never spawns a second time
\* whatever messages follow, and takes a message from either channel only
\* when it is not processing another one.
C32_SpawnOnce ==
    [][/\ rn.sh => rn'.sh
       /\ (jchild \in {"none", "dead"} /\ jchild' = "running") =>
            /\ jchild = "none" /\ ~rn.sh /\ rn'.sh
            /\ rn.pc = "select" /\ rn'.pc = "interact"
            /\ qint # <<>> /\ qint' = Tail(qint)
       /\ (rn.pc = "select" /\ rn'.pc = "interact" /\ ~rn.sh) =>
            (jchild' = "running" /\ rn'.sh)
       /\ (Len(qint') < Len(qint) \/ Len(qctl') < Len(qctl)) =>
            (rn.pc = "select" /\ rn.cur = 0)
       /\ ~(Len(qint') < Len(qint) /\ Len(qctl') < Len(qctl))
       /\ rn'.pc \in {"interact", "notify"} =>
            (rn'.cur # 0 /\ rn'.cur = rhist'.served[Len(rhist'.served)])]_vars

\* Two requests were served with a control message taken in between or
\* around them, by a session that was spawned.
C32_Witness ==
    /\ Len(rhist.served) = 2
    /\ rhist.nctls > 0 /\ qctl = <<>>
    /\ rn.sh /\ jchild # "none"

\* C33 as stated: after a pause that returned Ok, the resume that follows
\* leaves every live process of the session running, whatever resume returns.
C33_PauseThenResume ==
    [][(/\ hop.kind = "resume"
        /\ hop'.pc = "idle"
        /\ hret.kind = "pause" /\ hret.res = "Ok")
       => \A p \in Pids :
              (/\ procs'[p].sess = handle.pid
               /\ procs'[p].orig
               /\ procs'[p].st \in {"run", "stop"})
              => procs'[p].st = "run"]_vars

\* C33, amended: when resume returns Ok every live process of the session is
\* running, after one pause as after two (or none).
C33_ResumeOkRunsAll ==
    [][(/\ hop.kind = "resume"
        /\ hop'.pc = "idle"
        /\ hret'.res = "Ok")
       => \A p \in Pids :
              (/\ procs'[p].sess = handle.pid
               /\ procs'[p].orig
               /\ procs'[p].st \in {"run", "stop"})
              => procs'[p].st = "run"]_vars

\* A resume that follows a successful pause is about to continue the last
\* stopped process of its batch, having continued another one already.
C33_Witness ==
    /\ hop.kind = "resume" /\ hop.pc = "kill"
    /\ hret.kind = "pause" /\ hret.res = "Ok"
    /\ Len(hop.todo) = 1
    /\ procs[Head(hop.todo)].st = "stop"
    /\ \E q \in Pids : q # Head(hop.todo) /\ procs[q].orig /\ procs[q].st = "run"
                       /\ procs[q].sess = handle.pid

\* C34 as stated: while the leader is alive get_processes returns the
\* processes whose session id is the leader's pid; once the leader has been
\* collected get_processes fails and id() returns nothing.
C34_GoneHandle ==
    /\ LeaderAlive =>
         /\ get_processes_res = "Ok"
         /\ get_processes_val = {p \in Pids : procs[p].st # "none"
                                              /\ procs[p].sess = handle.pid}
         /\ SessionHandlerId = handle.pid
    /\ LeaderCollected => (get_processes_res = "Err" /\ SessionHandlerId = 0)

\* C35: a control message the Runner takes before any interaction has
\* spawned the child ends the loop with run_and_serve returning Ok, no child
\* is spawned and no signal is sent, then or later, and no interaction
\* request is served afterwards.
C35_ControlFirstEndsLoop ==
    [][/\ (rn.pc = "select" /\ ~rn.sh /\ Len(qctl') < Len(qctl)) =>
            /\ rn'.pc = "done" /\ rn'.res = "Ok" /\ ~rn'.sh
            /\ jchild = "none" /\ jchild' = "none"
            /\ rhist'.termd = rhist.termd
            /\ rhist'.served = rhist.served
       /\ RunnerGone => (RunnerGone' /\ rhist'.served = rhist.served)
       /\ (RunnerGone /\ ~rn.sh) => (jchild' = "none" /\ rhist'.termd = 0 /\ ~rn'.sh)]_vars

\* The loop was ended by a control message before any spawn, a request was
\* sent, and the Runner has been dropped since.
C35_Witness ==
    /\ rn.pc = "dropped" /\ rn.why = "control" /\ rn.res = "Ok" /\ ~rn.sh
    /\ rhist.nints > 0 /\ rhist.served = <<>>
    /\ jchild = "none" /\ rhist.termd = 0

\* C36: when an interaction fails in the Runner (the spawn or
\* session.interact), run_and_serve returns the error without publishing an
\* output and without notifying, and from then on no interact call whose
\* request was not answered returns.
C36_FailedInteractionHangs ==
    [][/\ (rn.pc \in {"select", "interact"} /\ rn'.pc = "done"
           /\ rn'.why \in {"spawn", "interact"}) =>
            (rn'.res = "Err" /\ wout' = wout /\ waiters' = waiters /\ hnd' = hnd
             /\ rhist'.notified = rhist.notified)
       /\ (RunnerGone /\ rn.why \in {"spawn", "interact"}) =>
            \A h \in Handlers :
                (hnd[h].req # 0 /\ hnd[h].req \notin rhist.notified
                 /\ hnd[h].pc \notin {"idle", "dropped"})
                => hnd'[h].pc \notin {"idle", "dropped"}]_vars

LineStream(bytes) ==
    LET t == DropCR(bytes) IN
    IF t = <<>> \/ t[Len(t)] = NL THEN t ELSE t \o <<NL>>

\* The texts returned so far are the line stream of everything the reader
\* has consumed.
Covered == iall = LineStream(SubSeq(sout, 1, rpos))

\* C38: over the successful interact calls of one InteractiveSession the
\* texts returned, concatenated in call order, are the line stream of the
\* bytes consumed, a prefix of the child's stdout: each call starts where
\* the one before it stopped, so no line is lost, repeated or out of order.
\* Only a call that fails after it has consumed lines breaks the chain.
C38_TextsArePrefix ==
    /\ iall = <<>> /\ rpos = 0
    /\ [][/\ iall' # iall =>
               (InteractReturns /\ iret'.res = "Ok" /\ iall' = iall \o iret'.text)
          /\ rpos' # rpos => (InteractReturns /\ rpos' > rpos)
          /\ (InteractReturns /\ iret'.res = "Ok") =>
               (rpos' > rpos /\ iall' = iall \o iret'.text)
          /\ (Covered /\ (rpos' = rpos \/ iret'.res = "Ok")) =>
               /\ Covered'
               /\ Len(iall') <= Len(LineStream(sout'))
               /\ iall' = SubSeq(LineStream(sout'), 1, Len(iall'))]_vars

\* Two calls returned Ok, one line each, the second a line other than the
\* first, and everything the child printed has been returned.
C38_Witness ==
    /\ iret.res = "Ok"
    /\ iall = <<1, NL, 2, NL>>
    /\ iret.text = <<2, NL>>
    /\ rpos = Len(sout)

\* C39 as stated: when Session::run returns after the race, whichever branch
\* won it, SIGKILL has been sent to every process of the first child's
\* session, so none of them is running; and when the kill failed run
\* returns an error, also when the command completed.
C39_KillBeforeReturn ==
    [][(sup.pc = "take" /\ sup'.pc = "done") =>
           /\ \A k \in {"first", "m1", "m2"} : kids'[k] # "running"
           /\ sup.res = "Err" => sup'.res = "Err"]_vars

\* The chunks a decoder yields for the chunks sent when each arrives whole.
RECURSIVE DecodedWhole(_)
DecodedWhole(cs) ==
    IF cs = <<>> THEN <<>>
    ELSE <<OutputChunk(Head(cs).type, Head(cs).payload)>> \o DecodedWhole(Tail(cs))

\* C40 as stated: however the stream is cut into reads the decoder yields
\* the chunks that were sent, in order, and all of them once every byte has
\* arrived; a decode that returns None leaves the buffer as it was.
C40_FragmentationFree ==
    [][/\ (ngst = "fresh" /\ ngst' = "idle") => ngbuf' = ngbuf
       /\ Len(ngout') <= Len(ngsent')
       /\ ngout' = SubSeq(DecodedWhole(ngsent'), 1, Len(ngout'))
       /\ (ngst' = "idle" /\ ngwire' = <<>>) => ngout' = DecodedWhole(ngsent')]_vars

====
